---- MODULE Spec2Model ----
(***************************************************************************)
(* ROAMS: the transition-point finder (roams/transition_point.py) and the  *)
(* production pipeline of ROAMSModel (roams/model.py): aerial sampling,    *)
(* partial-detection correction, transition point, distribution combiner.  *)
(*                                                                         *)
(* Numbers.  The program computes in float64.  The model computes in exact *)
(* integers:                                                                *)
(*   - emission sizes ("x" values) are integers;                           *)
(*   - masses (cumulative sums, extra mass) are integers in units of       *)
(*     1/PodScale, so that (1/PoD - 1)*emission is exact;                  *)
(*   - interpolated masses are in units of 1/InterpScale of a mass unit,   *)
(*     so that linear interpolation between integer knots is exact.        *)
(* NaN is one distinguished value with numpy's rules: arithmetic on it     *)
(* gives NaN and every comparison with it is false.                        *)
(* A matrix is a sequence of columns (one per Monte Carlo iteration), each *)
(* column a sequence of rows; numpy's 0-based row r is row r+1 here.       *)
(***************************************************************************)
EXTENDS Integers, Sequences, FiniteSets, Bags, TLC

(***************************************************************************)
(* Floats with NaN                                                         *)
(***************************************************************************)
NaN == -2000000000

IsNaN(a) == a = NaN

FSub(a, b) == IF IsNaN(a) \/ IsNaN(b) THEN NaN ELSE a - b

FLt(a, b) == ~IsNaN(a) /\ ~IsNaN(b) /\ a < b

FGt(a, b) == ~IsNaN(a) /\ ~IsNaN(b) /\ a > b

(***************************************************************************)
(* Sequences                                                               *)
(***************************************************************************)
Max2(a, b) == IF a >= b THEN a ELSE b

SetMax(S) == CHOOSE m \in S : \A k \in S : k <= m

SetMin(S) == CHOOSE m \in S : \A k \in S : m <= k

Gcd(a, b) == SetMax({d \in 1..Max2(a, b) : a % d = 0 /\ b % d = 0})

RECURSIVE SetLcm(_)
SetLcm(S) ==
    IF S = {} THEN 1
    ELSE LET g == CHOOSE k \in S : TRUE
             r == SetLcm(S \ {g})
         IN  (g * r) \div Gcd(g, r)

IsSorted(s) == \A i \in 1..(Len(s) - 1) : s[i] <= s[i + 1]

\* numpy's cumsum along a column
RECURSIVE Cumsum(_)
Cumsum(s) ==
    IF Len(s) = 0 THEN <<>>
    ELSE LET c == Cumsum(SubSeq(s, 1, Len(s) - 1))
         IN  Append(c, (IF Len(c) = 0 THEN 0 ELSE c[Len(c)]) + s[Len(s)])

\* c.max() - c for a column c
MaxMinus(c) == [i \in 1..Len(c) |-> SetMax({c[k] : k \in 1..Len(c)}) - c[i]]

\* s[mask] with a boolean mask given as the set of kept rows
RECURSIVE Keep(_, _)
Keep(s, rows) ==
    IF Len(s) = 0 THEN <<>>
    ELSE LET h == Keep(SubSeq(s, 1, Len(s) - 1), rows)
         IN  IF Len(s) \in rows THEN Append(h, s[Len(s)]) ELSE h

(***************************************************************************)
(* find_transition_point                                                   *)
(***************************************************************************)
\* The exclusive upper end of the search grid.  The program's value is 1000;
\* the model's emission sizes are at most 12, so that with the window of 11
\* both interpolated curves are flat from 24 on, and the grid is cut there.
max_interp_emiss == 30

GridLo == 5

GridLen == max_interp_emiss - GridLo

\* a grid of every second integer
xsStepTwo(w) == GridLo + 2 * w

\* xs = np.arange(5, max_interp_emiss, 1), as a function of the 0-based index;
\* a negative index counts from the end, as numpy's does
xs(w) == GridLo + (IF w < 0 THEN w + GridLen ELSE w)

smoothing_window_default == 11

\* The emission sizes the model's inputs are drawn from, and the scale that
\* makes interpolation between any two of them exact.
XDomain == {0, 4, 6, 8, 12}

InterpScale == SetLcm({p[2] - p[1] : p \in {q \in XDomain \X XDomain : q[1] < q[2]}})

\* np.interp(x, xp, fp) for one x and non-empty xp: the left (right) end
\* value outside the knots, fp[j] at a knot, else the line through the knots
\* j, j+1 around x, j being the last knot with xp[j] <= x.  The result is in
\* units of 1/InterpScale.
Interp(x, xp, fp) ==
    LET n == Len(xp)
        sc(v) == IF IsNaN(v) THEN NaN ELSE v * InterpScale
    IN  IF x > xp[n] THEN sc(fp[n])
        ELSE IF x < xp[1] THEN sc(fp[1])
        ELSE LET j == SetMax({k \in 1..n : \A i \in 2..k : x >= xp[i]})
             IN  IF j = n THEN sc(fp[j])
                 ELSE IF xp[j] = x THEN sc(fp[j])
                 ELSE IF IsNaN(fp[j]) \/ IsNaN(fp[j + 1]) THEN NaN
                 ELSE fp[j] * InterpScale
                      + ((fp[j + 1] - fp[j]) * (x - xp[j]) * InterpScale)
                          \div (xp[j + 1] - xp[j])

\* rows of a column that are not NaN: ~np.isnan(a_x)
NotNaNRows(x) == {i \in 1..Len(x) : ~IsNaN(x[i])}

\* interp_*_dist[:, mc_run] = np.interp(xs, x[~isnan(x)], y[~isnan(x)])
InterpDist(x, y) ==
    LET xp == Keep(x, NotNaNRows(x))
        fp == Keep(y, NotNaNRows(x))
    IN  [w \in 0..(GridLen - 1) |-> Interp(xs(w), xp, fp)]

\* smooth_*_dist[w, mc_run], times its divisor max(1, w - wmin), which is
\* positive and the same for the aerial and the simulated curve
SmoothDist(w, interp_dist, window) ==
    LET wmin == Max2(0, w - window)
    IN  FSub(interp_dist[wmin], interp_dist[w])

\* diff[:, mc_run] = smooth_aerial_dist - smooth_simmed_dist, up to that
\* positive divisor: its sign is the sign of the program's diff
Diff(ax, ay, sx, sy, window) ==
    LET interp_aerial_dist == InterpDist(ax, ay)
        interp_simmed_dist == InterpDist(sx, sy)
    IN  [w \in 0..(GridLen - 1) |->
            FSub(SmoothDist(w, interp_aerial_dist, window),
                 SmoothDist(w, interp_simmed_dist, window))]

\* np.argmax(diff > 0, axis=0) for one column: the first index where diff > 0,
\* and 0 when diff > 0 nowhere (argmax of an all-False column)
ArgmaxPositive(diff) ==
    LET pos == {w \in 0..(GridLen - 1) : FGt(diff[w], 0)}
    IN  IF pos = {} THEN 0 ELSE SetMin(pos)

\* the error the interpolation loop raises at one column, "none" if none:
\* a boolean mask of the wrong length is an IndexError, no sample point left
\* is np.interp's ValueError
InterpError(x, y) ==
    IF Len(x) # Len(y) THEN "IndexError"
    ELSE IF NotNaNRows(x) = {} THEN "ValueError"
    ELSE "none"

ColumnError(ax, ay, sx, sy) ==
    IF InterpError(ax, ay) # "none" THEN InterpError(ax, ay) ELSE InterpError(sx, sy)

\* xs[transition_point]: the offset of one index forgotten
TransitionValueNoOffset(idx) == xs(idx)

\* xs[transition_point - 1]: the grid value one index before the argmax; the
\* index -1 of an argmax of 0 is numpy's last element
TransitionValue(idx) == xs(idx - 1)

\* find_transition_point(aerial_x, aerial_y, sim_x, sim_y, smoothing_window):
\* [err |-> the exception raised or "none", tps |-> the returned array,
\*  warned |-> whether the lower-bound warning was logged]
find_transition_point(aerial_x, aerial_y, sim_x, sim_y, smoothing_window) ==
    LET n_mc_runs == Len(aerial_x)
        fail(e) == [err |-> e, tps |-> <<>>, warned |-> FALSE]
    IN  IF Len(aerial_x) # Len(sim_x) \/ Len(aerial_y) # Len(sim_y)
           \/ Len(aerial_x) # Len(aerial_y)
        THEN fail("IndexError")
        ELSE
        LET bad == {c \in 1..n_mc_runs :
                       ColumnError(aerial_x[c], aerial_y[c], sim_x[c], sim_y[c]) # "none"}
        IN  IF bad # {}
            THEN LET c == SetMin(bad)
                 IN  fail(ColumnError(aerial_x[c], aerial_y[c], sim_x[c], sim_y[c]))
            ELSE
            LET diff == [c \in 1..n_mc_runs |->
                            Diff(aerial_x[c], aerial_y[c], sim_x[c], sim_y[c],
                                 smoothing_window)]
                col_signs_to_switch == {c \in 1..n_mc_runs : FLt(diff[c][0], 0)}
            IN  IF col_signs_to_switch # {} THEN fail("ValueError")
                ELSE
                LET transition_point == [c \in 1..n_mc_runs |-> ArgmaxPositive(diff[c])]
                    tps == [c \in 1..n_mc_runs |-> TransitionValue(transition_point[c])]
                IN  [err |-> "none", tps |-> tps,
                     warned |-> \E c \in 1..n_mc_runs : tps[c] = xs(0)]

(***************************************************************************)
(* Partial detection                                                       *)
(***************************************************************************)
\* PoD_bin for one wind-normalized value, as the fraction <<num, den>>:
\* 1/5, 0.2424.. = 8/33, 0.3529.. = 6/17, 0.6969.. = 23/33, 0.9090.. = 10/11
PoD_bin(w) ==
    IF w >= 12 /\ w < 14 THEN <<10, 11>>
    ELSE IF w >= 10 /\ w < 12 THEN <<23, 33>>
    ELSE IF w >= 8 /\ w < 10 THEN <<6, 17>>
    ELSE IF w >= 6 /\ w < 8 THEN <<8, 33>>
    ELSE IF w > 0 /\ w < 6 THEN <<1, 5>>
    ELSE <<1, 1>>

\* a fraction in lowest terms
Reduce(f) ==
    IF f[1] = 0 THEN <<0, 1>>
    ELSE LET g == Gcd(f[1], f[2]) IN <<f[1] \div g, f[2] \div g>>

\* the breakpoints of PoD_linear: xs, and ys as fractions
PoD_linear_xs == <<4, 6, 8, 10, 12, 14, 16>>

PoD_linear_ys == <<<<1, 5>>, <<1, 5>>, <<8, 33>>, <<12, 34>>, <<23, 33>>, <<20, 22>>, <<1, 1>>>>

\* np.interp(w, xs, ys) for one integer w, as a fraction in lowest terms
PoD_linear_interp(w) ==
    LET k == Len(PoD_linear_xs)
    IN  IF w > PoD_linear_xs[k] THEN Reduce(PoD_linear_ys[k])
        ELSE IF w < PoD_linear_xs[1] THEN Reduce(PoD_linear_ys[1])
        ELSE LET j == SetMax({i \in 1..k : PoD_linear_xs[i] <= w})
             IN  IF j = k \/ PoD_linear_xs[j] = w THEN Reduce(PoD_linear_ys[j])
                 ELSE LET a == PoD_linear_ys[j]
                          b == PoD_linear_ys[j + 1]
                          gap == PoD_linear_xs[j + 1] - PoD_linear_xs[j]
                          t == w - PoD_linear_xs[j]
                      IN  Reduce(<<a[1] * b[2] * gap + (b[1] * a[2] - a[1] * b[2]) * t,
                                   a[2] * b[2] * gap>>)

\* PoD_linear with the values below the first breakpoint left interpolated
PoD_linearNoFloor(w) == PoD_linear_interp(w)

\* PoD_linear for one wind-normalized value: the interpolation, and 1 below 4
PoD_linear(w) == IF w < 4 THEN <<1, 1>> ELSE PoD_linear_interp(w)

\* the detection curves a configuration can name or pass: the two of
\* roams.aerial.partial_detection, the tests' _half_pod, and two curves whose
\* values leave (0, 1]: 0 for every positive input, and 2 everywhere
PoDCurves == {"PoD_bin", "PoD_linear", "_half_pod", "zero_pod", "double_pod"}

\* cfg.PoD_fn(wind_norm_emiss) for one cell
PoD_fn(curve, w) ==
    IF curve = "PoD_bin" THEN PoD_bin(w)
    ELSE IF curve = "PoD_linear" THEN PoD_linear(w)
    ELSE IF curve = "_half_pod" THEN (IF w > 0 THEN <<1, 2>> ELSE <<1, 1>>)
    ELSE IF curve = "zero_pod" THEN (IF w > 0 THEN <<0, 1>> ELSE <<1, 1>>)
    ELSE <<2, 1>>

\* the mass unit: every numerator of PoD_bin, and of the other curves at the
\* wind-normalized values of the model, divides it
PodScale == SetLcm({1, 8, 6, 23, 10})

\* float64 infinity
Inf == 1999999999

\* 1/PoD*emiss: the 1 forgotten
ExtraMassWhole(pod, em) ==
    IF pod[1] = 0 THEN (IF em = 0 THEN NaN ELSE IF em > 0 THEN Inf ELSE -Inf)
    ELSE em * pod[2] * (PodScale \div pod[1])

\* (1/PoD - 1)*emiss for one cell, in units of 1/PodScale.  A PoD of 0 divides
\* by zero, which numpy answers with a warning and inf: inf*emiss is inf,
\* -inf, or NaN for an emission of 0.
ExtraMass(pod, em) ==
    IF pod[1] = 0 THEN (IF em = 0 THEN NaN ELSE IF em > 0 THEN Inf ELSE -Inf)
    ELSE em * (pod[2] - pod[1]) * (PodScale \div pod[1])

(***************************************************************************)
(* Sorting                                                                 *)
(***************************************************************************)
IndexArrays(n) == {p \in [1..n -> 1..n] : \A i, j \in 1..n : i # j => p[i] # p[j]}

\* col[idx]: the rows of a column taken in the order of an index array
TakeRows(col, idx) == [r \in 1..Len(col) |-> col[idx[r]]]

\* a sort that leaves every column as it is
ArgSortsUnsorted(col) == {[r \in 1..Len(col) |-> r]}

\* np.argsort of one column: an index array that puts the column in ascending
\* order.  The order of equal values is the sort implementation's choice, so
\* every such index array is a possible result.
ArgSorts(col) == {p \in IndexArrays(Len(col)) : IsSorted(TakeRows(col, p))}

\* the sibling column left in its old row order
PermuteSiblingNot(col, sort_idx) == col

\* the sibling column permuted by the sort index of the emissions column
PermuteSibling(col, sort_idx) == TakeRows(col, sort_idx)

\* the index arrays of a whole matrix, one per column
RECURSIVE MatrixArgSorts(_)
MatrixArgSorts(m) ==
    IF Len(m) = 0 THEN {<<>>}
    ELSE {Append(h, p) : h \in MatrixArgSorts(SubSeq(m, 1, Len(m) - 1)),
                         p \in ArgSorts(m[Len(m)])}

\* the matrices with the given columns
RECURSIVE Matrices(_, _)
Matrices(cols, ncols) ==
    IF ncols = 0 THEN {<<>>}
    ELSE {Append(h, c) : h \in Matrices(cols, ncols - 1), c \in cols}

(***************************************************************************)
(* State                                                                   *)
(***************************************************************************)
VARIABLES
    pc,                 \* where perform_analysis stands
    cfg,                \* the configuration: prod_transition_point (<<>> for
                        \* None, <<v>> for a number), partial_detection_correction
    simulated_sample,   \* self.simulated_sample
    emiss,              \* the production aerial emissions of make_aerial_samples
    wind_norm_emiss,    \* their wind-normalized siblings
    partial_detection_emiss,            \* their partial-detection extra mass
    prod_tp,            \* self.prod_tp
    prod_combined_samples,              \* self.prod_combined_samples
    prod_partial_detection_emissions,   \* self.prod_partial_detection_emissions
    combined_sort_idx,  \* the argsort of combine_prod_samples
    n,                  \* the loop variable of combine_prod_samples (from 1)
    err,                \* the exception perform_analysis ended with, or "none"
    outputs_written,    \* whether generate_and_write_outputs has run
    PoD,                \* the probabilities of detection of make_aerial_samples
    tp_pc,      \* find_transition_point called directly: "call", "returned"
    tp_args,    \* its arguments
    tp_ret,     \* what it raised or returned
    pod_pc,     \* a detection curve called directly: "call", "returned"
    pod_args,   \* the wind-normalized array it is called on
    pod_ret,    \* the curve called and the array it returned
    as_pc,              \* where get_aerial_survey_sample stands
    infra_sources,      \* the coverage_count of every source of the group
    infra_plumes,       \* the plumes of every source: (em, windnorm_em) in file order
    df,                 \* the table of coverage slots, one row per source
    sample,             \* the slots drawn, per source and Monte Carlo iteration
    emissions,          \* the emissions array of get_aerial_survey_sample
    wind_normalized_em, \* its wind-normalized array
    noise,              \* the multipliers noise_fn drew, one per cell
    st_pc,              \* where stratify_sample stands
    st_args,            \* its arguments
    sim_quantiles,      \* the bin edges, in units of 1/QuantileScale
    prod_count_by_bin,  \* the samples to take in each bin, scaled then rounded
    stratified_sample,  \* the rows inserted so far, then the sorted result
    cut_pc,             \* where AerialSurveyData.handle_cutoffs stands
    cutoff_col,         \* self._cutoff_col: "None" or the name of the column
    raw_plumes,         \* self._raw_plumes: source id and cut-off flag per plume
    raw_source,         \* self._raw_source: source id and coverage count per source
    cut_args,           \* cutoff_handling and the two tables as they were read
    source_ids,         \* the cut-off observations counted for each source
    seed_pc,            \* where a run of two in one process stands
    np_random,          \* the global stream of np.random: its seed and position
    generator,          \* the outputs of the generator seen so far, per seed
    runs,               \* the seed and the matrices of every finished run
    this_run            \* the seed and the matrices of the run under way

run_vars == <<pc, cfg, simulated_sample, emiss, wind_norm_emiss, partial_detection_emiss,
              prod_tp, prod_combined_samples, prod_partial_detection_emissions,
              combined_sort_idx, n, err, outputs_written, PoD>>

tp_vars == <<tp_pc, tp_args, tp_ret>>

pod_vars == <<pod_pc, pod_args, pod_ret>>

as_vars == <<as_pc, infra_sources, infra_plumes, df, sample, emissions,
             wind_normalized_em, noise>>

st_vars == <<st_pc, st_args, sim_quantiles, prod_count_by_bin, stratified_sample>>

cut_vars == <<cut_pc, cutoff_col, raw_plumes, raw_source, cut_args, source_ids>>

seed_vars == <<seed_pc, np_random, generator, runs, this_run>>

other_vars == <<st_vars, cut_vars, seed_vars>>

vars == <<run_vars, tp_vars, pod_vars, as_vars, other_vars>>

\* the state of a part of the program that a specification does not run
PipelineUnused ==
    /\ pc = "unused"
    /\ simulated_sample = <<>>
    /\ emiss = <<>>
    /\ wind_norm_emiss = <<>>
    /\ partial_detection_emiss = <<>>
    /\ prod_tp = <<>>
    /\ prod_combined_samples = <<>>
    /\ prod_partial_detection_emissions = <<>>
    /\ combined_sort_idx = <<>>
    /\ n = 0
    /\ err = "none"
    /\ outputs_written = FALSE
    /\ PoD = <<>>

FinderUnused == tp_pc = "unused" /\ tp_args = <<>> /\ tp_ret = <<>>

CurveUnused == pod_pc = "unused" /\ pod_args = <<>> /\ pod_ret = <<>>

SamplerUnused ==
    /\ as_pc = "unused"
    /\ infra_sources = <<>>
    /\ infra_plumes = <<>>
    /\ df = <<>>
    /\ sample = <<>>
    /\ emissions = <<>>
    /\ wind_normalized_em = <<>>
    /\ noise = <<>>

StratifyUnused ==
    /\ st_pc = "unused"
    /\ st_args = <<>>
    /\ sim_quantiles = <<>>
    /\ prod_count_by_bin = <<>>
    /\ stratified_sample = <<>>

CutoffsUnused ==
    /\ cut_pc = "unused"
    /\ cutoff_col = "None"
    /\ raw_plumes = <<>>
    /\ raw_source = <<>>
    /\ cut_args = <<>>
    /\ source_ids = <<>>

SeedUnused ==
    /\ seed_pc = "unused"
    /\ np_random = <<>>
    /\ generator = <<>>
    /\ runs = <<>>
    /\ this_run = <<>>

OthersUnused == StratifyUnused /\ CutoffsUnused /\ SeedUnused

(***************************************************************************)
(* perform_analysis                                                        *)
(***************************************************************************)
\* cfg.num_wells_to_simulate
NumWells == 3

\* the rows of the aerial sample: one per covered production source
NumAerialRows == 2

\* cfg.n_mc_samples
NMC == 2

\* cfg.prodSimResults.simulated_emissions
SimEmissions == {4, 8}

\* what one aerial draw can be: an observed plume (emission, wind-normalized
\* emission) or a visit without a plume
AerialSlots == {<<0, 0>>, <<6, 3>>, <<12, 13>>}

\* the transition points a configuration may give
ConfiguredTransitionPoints == {7}

Columns(vals, rows) == [1..rows -> vals]

SortedColumn(col) == TakeRows(col, CHOOSE p \in ArgSorts(col) : TRUE)

Init ==
    /\ pc = "make_simulated_sample"
    /\ cfg \in [prod_transition_point : {<<>>} \cup {<<v>> : v \in ConfiguredTransitionPoints},
                partial_detection_correction : BOOLEAN,
                PoD_fn : {"PoD_bin"}]
    /\ simulated_sample = <<>>
    /\ emiss = <<>>
    /\ wind_norm_emiss = <<>>
    /\ partial_detection_emiss = <<>>
    /\ prod_tp = <<>>
    /\ prod_combined_samples = <<>>
    /\ prod_partial_detection_emissions = <<>>
    /\ combined_sort_idx = <<>>
    /\ n = 0
    /\ err = "none"
    /\ outputs_written = FALSE
    /\ PoD = <<>>
    /\ tp_pc = "unused"
    /\ tp_args = <<>>
    /\ tp_ret = <<>>
    /\ CurveUnused
    /\ SamplerUnused
    /\ OthersUnused

\* make_simulated_sample without stratification: np.random.choice of the
\* simulated emissions into every cell, then each column sorted
MakeSimulatedSample ==
    /\ pc = "make_simulated_sample"
    /\ \E sub_mdl_sample \in Matrices(Columns(SimEmissions, NumWells), NMC) :
          simulated_sample' = [c \in 1..NMC |-> SortedColumn(sub_mdl_sample[c])]
    /\ pc' = "get_aerial_survey_sample"
    /\ UNCHANGED <<cfg, emiss, wind_norm_emiss, partial_detection_emiss, prod_tp,
                   prod_combined_samples, prod_partial_detection_emissions,
                   combined_sort_idx, n, err, outputs_written, PoD, tp_vars, pod_vars, as_vars, other_vars>>

\* get_aerial_survey_sample: every cell is a draw among the slots
GetAerialSurveySample ==
    /\ pc = "get_aerial_survey_sample"
    /\ \E drawn \in Matrices(Columns(AerialSlots, NumAerialRows), NMC) :
          /\ emiss' = [c \in 1..NMC |-> [r \in 1..NumAerialRows |-> drawn[c][r][1]]]
          /\ wind_norm_emiss' = [c \in 1..NMC |-> [r \in 1..NumAerialRows |-> drawn[c][r][2]]]
    /\ pc' = "partial_detection"
    /\ UNCHANGED <<cfg, simulated_sample, partial_detection_emiss, prod_tp,
                   prod_combined_samples, prod_partial_detection_emissions,
                   combined_sort_idx, n, err, outputs_written, PoD, tp_vars, pod_vars, as_vars, other_vars>>

\* make_aerial_samples, the partial detection correction of the sample
ComputePartialDetection ==
    /\ pc = "partial_detection"
    /\ IF cfg.partial_detection_correction
       THEN /\ PoD' = [c \in 1..NMC |-> [r \in 1..NumAerialRows |->
                          PoD_fn(cfg.PoD_fn, wind_norm_emiss[c][r])]]
            /\ partial_detection_emiss' =
                  [c \in 1..NMC |-> [r \in 1..NumAerialRows |->
                      ExtraMass(PoD'[c][r], emiss[c][r])]]
       ELSE /\ partial_detection_emiss' =
                  [c \in 1..NMC |-> [r \in 1..NumAerialRows |-> 0]]
            /\ UNCHANGED PoD
    /\ pc' = "sort_aerial"
    /\ UNCHANGED <<cfg, simulated_sample, emiss, wind_norm_emiss, prod_tp,
                   prod_combined_samples, prod_partial_detection_emissions,
                   combined_sort_idx, n, err, outputs_written, tp_vars, pod_vars, as_vars, other_vars>>

\* make_aerial_samples, the sort of the emissions and of their extra mass
SortAerialSamples ==
    /\ pc = "sort_aerial"
    /\ \E sort_idx \in MatrixArgSorts(emiss) :
          /\ emiss' = [c \in 1..NMC |-> TakeRows(emiss[c], sort_idx[c])]
          /\ partial_detection_emiss' =
                [c \in 1..NMC |-> PermuteSibling(partial_detection_emiss[c], sort_idx[c])]
    /\ pc' = "combine"
    /\ UNCHANGED <<cfg, simulated_sample, wind_norm_emiss, prod_tp,
                   prod_combined_samples, prod_partial_detection_emissions,
                   combined_sort_idx, n, err, outputs_written, PoD, tp_vars, pod_vars, as_vars, other_vars>>

(***************************************************************************)
(* combine_prod_samples                                                    *)
(***************************************************************************)
\* np.pad of one column: zero rows before the rows of the column
PadColumn(col, rows) == [r \in 1..rows |-> IF r <= rows - Len(col) THEN 0
                                           ELSE col[r - (rows - Len(col))]]

\* the simulated values of a column below the transition point, in row order
SimBelowTransition(col, tp) == Keep(col, {r \in 1..Len(col) : col[r] < tp})

\* np.argmin(col < tp): the 0-based index of the first row that is not below
\* tp, and 0 when every row is below it (argmin of an all-True column)
ArgminBelow(col, tp) ==
    LET notbelow == {r \in 1..Len(col) : ~(col[r] < tp)}
    IN  IF notbelow = {} THEN 0 ELSE SetMin(notbelow) - 1

\* the decreasing cumulative mass of the aerial columns (emissions and their
\* partial detection) and of the simulated columns, in units of 1/PodScale
AerialCumsum(c) ==
    LET em == Cumsum(emiss[c])
        pd == Cumsum(partial_detection_emiss[c])
    IN  MaxMinus([r \in 1..Len(em) |-> em[r] * PodScale + pd[r]])

SimmedCumsum(c) ==
    LET cs == Cumsum(simulated_sample[c])
    IN  MaxMinus([r \in 1..Len(cs) |-> cs[r] * PodScale])

\* the transition points: computed from the two distributions when the
\* configuration gives none, else the configured number in every column
TransitionPoints ==
    IF cfg.prod_transition_point = <<>>
    THEN find_transition_point(emiss, [c \in 1..NMC |-> AerialCumsum(c)],
                               simulated_sample, [c \in 1..NMC |-> SimmedCumsum(c)],
                               smoothing_window_default)
    ELSE [err |-> "none", tps |-> [c \in 1..NMC |-> cfg.prod_transition_point[1]],
          warned |-> FALSE]

\* combine_prod_samples up to its loop: the transition points, and the two
\* matrices padded to the number of wells
CombineStart ==
    /\ pc = "combine"
    /\ LET tp == TransitionPoints
       IN  IF tp.err # "none"
           THEN /\ err' = tp.err
                /\ pc' = "raised"
                /\ UNCHANGED <<prod_tp, prod_combined_samples,
                               prod_partial_detection_emissions, n>>
           ELSE /\ prod_tp' = tp.tps
                /\ prod_combined_samples' = [c \in 1..NMC |-> PadColumn(emiss[c], NumWells)]
                /\ prod_partial_detection_emissions' =
                      [c \in 1..NMC |-> PadColumn(partial_detection_emiss[c], NumWells)]
                /\ n' = 1
                /\ pc' = "combine_loop"
                /\ UNCHANGED err
    /\ UNCHANGED <<cfg, simulated_sample, emiss, wind_norm_emiss, partial_detection_emiss,
                   combined_sort_idx, outputs_written, PoD, tp_vars, pod_vars, as_vars, other_vars>>

\* the first loop with the error noted and the loop carried on
CombineColumnCarryOn ==
    /\ pc = "combine_loop"
    /\ n <= NMC
    /\ LET tp == prod_tp[n]
           sim_below_transition == SimBelowTransition(simulated_sample[n], tp)
           idx_above_transition == ArgminBelow(prod_combined_samples[n], tp)
       IN  IF Len(sim_below_transition) < idx_above_transition
           THEN /\ err' = "IndexError"
                /\ n' = n + 1
                /\ UNCHANGED <<prod_combined_samples, prod_partial_detection_emissions, pc>>
           ELSE /\ \E choice \in [1..idx_above_transition -> 1..Len(sim_below_transition)] :
                      prod_combined_samples' =
                          [prod_combined_samples EXCEPT ![n] =
                              [r \in 1..NumWells |->
                                  IF r <= idx_above_transition
                                  THEN sim_below_transition[choice[r]]
                                  ELSE prod_combined_samples[n][r]]]
                /\ prod_partial_detection_emissions' =
                      [prod_partial_detection_emissions EXCEPT ![n] =
                          [r \in 1..NumWells |->
                              IF r <= idx_above_transition THEN 0
                              ELSE prod_partial_detection_emissions[n][r]]]
                /\ n' = n + 1
                /\ UNCHANGED <<pc, err>>
    /\ UNCHANGED <<cfg, simulated_sample, emiss, wind_norm_emiss, partial_detection_emiss,
                   prod_tp, combined_sort_idx, outputs_written, PoD, tp_vars, pod_vars, as_vars, other_vars>>

\* one iteration of the first loop: raise when the simulated values below the
\* transition point are fewer than idx_above_transition, else draw that many
\* of them into the first rows and zero the extra mass of those rows
CombineColumn ==
    /\ pc = "combine_loop"
    /\ n <= NMC
    /\ LET tp == prod_tp[n]
           sim_below_transition == SimBelowTransition(simulated_sample[n], tp)
           idx_above_transition == ArgminBelow(prod_combined_samples[n], tp)
       IN  IF Len(sim_below_transition) < idx_above_transition
           THEN /\ err' = "IndexError"
                /\ pc' = "raised"
                /\ UNCHANGED <<prod_combined_samples, prod_partial_detection_emissions, n>>
           ELSE /\ \E choice \in [1..idx_above_transition -> 1..Len(sim_below_transition)] :
                      prod_combined_samples' =
                          [prod_combined_samples EXCEPT ![n] =
                              [r \in 1..NumWells |->
                                  IF r <= idx_above_transition
                                  THEN sim_below_transition[choice[r]]
                                  ELSE prod_combined_samples[n][r]]]
                /\ prod_partial_detection_emissions' =
                      [prod_partial_detection_emissions EXCEPT ![n] =
                          [r \in 1..NumWells |->
                              IF r <= idx_above_transition THEN 0
                              ELSE prod_partial_detection_emissions[n][r]]]
                /\ n' = n + 1
                /\ UNCHANGED <<pc, err>>
    /\ UNCHANGED <<cfg, simulated_sample, emiss, wind_norm_emiss, partial_detection_emiss,
                   prod_tp, combined_sort_idx, outputs_written, PoD, tp_vars, pod_vars, as_vars, other_vars>>

\* the argsort of the whole combined matrix, after the first loop
CombineArgsort ==
    /\ pc = "combine_loop"
    /\ n > NMC
    /\ combined_sort_idx' \in MatrixArgSorts(prod_combined_samples)
    /\ n' = 1
    /\ pc' = "combine_sort"
    /\ UNCHANGED <<cfg, simulated_sample, emiss, wind_norm_emiss, partial_detection_emiss,
                   prod_tp, prod_combined_samples, prod_partial_detection_emissions,
                   err, outputs_written, PoD, tp_vars, pod_vars, as_vars, other_vars>>

\* the second loop with the index arrays applied to the whole matrix in every
\* iteration
CombineSortWholeMatrix ==
    /\ pc = "combine_sort"
    /\ n <= NMC
    /\ prod_combined_samples' =
          [c \in 1..NMC |-> TakeRows(prod_combined_samples[c], combined_sort_idx[c])]
    /\ prod_partial_detection_emissions' =
          [c \in 1..NMC |->
              PermuteSibling(prod_partial_detection_emissions[c], combined_sort_idx[c])]
    /\ n' = n + 1
    /\ UNCHANGED <<pc, cfg, simulated_sample, emiss, wind_norm_emiss,
                   partial_detection_emiss, prod_tp, combined_sort_idx, err,
                   outputs_written, PoD, tp_vars, pod_vars, as_vars, other_vars>>

\* one iteration of the second loop: the column and its extra mass re-sorted
CombineSortColumn ==
    /\ pc = "combine_sort"
    /\ n <= NMC
    /\ prod_combined_samples' =
          [prod_combined_samples EXCEPT ![n] = TakeRows(@, combined_sort_idx[n])]
    /\ prod_partial_detection_emissions' =
          [prod_partial_detection_emissions EXCEPT ![n] =
              PermuteSibling(@, combined_sort_idx[n])]
    /\ n' = n + 1
    /\ UNCHANGED <<pc, cfg, simulated_sample, emiss, wind_norm_emiss,
                   partial_detection_emiss, prod_tp, combined_sort_idx, err,
                   outputs_written, PoD, tp_vars, pod_vars, as_vars, other_vars>>

\* combine_prod_samples returns
CombineReturn ==
    /\ pc = "combine_sort"
    /\ n > NMC
    /\ pc' = "report"
    /\ UNCHANGED <<cfg, simulated_sample, emiss, wind_norm_emiss, partial_detection_emiss,
                   prod_tp, prod_combined_samples, prod_partial_detection_emissions,
                   combined_sort_idx, n, err, outputs_written, PoD, tp_vars, pod_vars, as_vars, other_vars>>

\* compute_simulated_midstream_emissions and generate_and_write_outputs: they
\* read the samples and the combined matrices and write the output tables
GenerateAndWriteOutputs ==
    /\ pc = "report"
    /\ outputs_written' = TRUE
    /\ pc' = "done"
    /\ UNCHANGED <<cfg, simulated_sample, emiss, wind_norm_emiss, partial_detection_emiss,
                   prod_tp, prod_combined_samples, prod_partial_detection_emissions,
                   combined_sort_idx, n, err, PoD, tp_vars, pod_vars, as_vars, other_vars>>

Next ==
    \/ MakeSimulatedSample
    \/ GetAerialSurveySample
    \/ ComputePartialDetection
    \/ SortAerialSamples
    \/ CombineStart
    \/ CombineColumn
    \/ CombineArgsort
    \/ CombineSortColumn
    \/ CombineReturn
    \/ GenerateAndWriteOutputs

Spec == Init /\ [][Next]_vars

(***************************************************************************)
(* find_transition_point called on its own, on bounded inputs              *)
(***************************************************************************)
TPRows == 2

TPCols == 2

\* emission sizes and masses of the direct calls
TPXValues == {4, 8, 12}

TPYValues == {0, 24}

\* an x column: ascending sizes, any of which may be NaN
TPXColumns ==
    {x \in [1..TPRows -> TPXValues \cup {NaN}] :
        \A i, j \in 1..TPRows : (i < j /\ ~IsNaN(x[i]) /\ ~IsNaN(x[j])) => x[i] <= x[j]}

\* a y column: any masses, decreasing or not, any of which may be NaN
TPYColumns == [1..TPRows -> TPYValues \cup {NaN}]

TPCurves == TPXColumns \X TPYColumns

\* a regular curve: no NaN, the mass falls from 24 to 0 and never rises
TPRegularCurves ==
    {cv \in TPCurves :
        /\ \A i \in 1..TPRows : ~IsNaN(cv[1][i]) /\ ~IsNaN(cv[2][i])
        /\ cv[2][1] = 24 /\ cv[2][TPRows] = 0
        /\ \A i \in 1..(TPRows - 1) : cv[2][i] >= cv[2][i + 1]}

\* the (aerial, simulated) curves of one column.  In the first column one of
\* the two is any curve and the other is regular; the later columns hold one
\* of two regular curves on each side: sizes 4 or 8, then 12 in every later
\* row, with the whole mass in the first row.
TPLaterCurves ==
    {cv \in TPRegularCurves :
        /\ cv[1][1] \in {4, 8}
        /\ \A i \in 2..TPRows : cv[1][i] = 12 /\ cv[2][i] = 0}

TPColumnInputs(c) ==
    IF c = 1
    THEN (TPCurves \X TPRegularCurves) \cup (TPRegularCurves \X TPCurves)
    ELSE TPLaterCurves \X TPLaterCurves

\* the inputs of all columns: one (aerial, simulated) pair per column
RECURSIVE TPInputSeqs(_)
TPInputSeqs(c) ==
    IF c = 0 THEN {<<>>}
    ELSE {Append(h, in) : h \in TPInputSeqs(c - 1), in \in TPColumnInputs(c)}

TPNoResult == [err |-> "pending", tps |-> <<>>, warned |-> FALSE]

TPInit ==
    /\ tp_pc = "call"
    /\ tp_ret = TPNoResult
    /\ pc = "unused"
    /\ cfg = <<>>
    /\ simulated_sample = <<>>
    /\ emiss = <<>>
    /\ wind_norm_emiss = <<>>
    /\ partial_detection_emiss = <<>>
    /\ prod_tp = <<>>
    /\ prod_combined_samples = <<>>
    /\ prod_partial_detection_emissions = <<>>
    /\ combined_sort_idx = <<>>
    /\ n = 0
    /\ err = "none"
    /\ outputs_written = FALSE
    /\ PoD = <<>>
    /\ CurveUnused
    /\ SamplerUnused
    /\ \E in \in TPInputSeqs(TPCols) :
          tp_args = [aerial_x |-> [c \in 1..TPCols |-> in[c][1][1]],
                     aerial_y |-> [c \in 1..TPCols |-> in[c][1][2]],
                     sim_x |-> [c \in 1..TPCols |-> in[c][2][1]],
                     sim_y |-> [c \in 1..TPCols |-> in[c][2][2]],
                     smoothing_window |-> smoothing_window_default]
    /\ OthersUnused

CallFindTransitionPoint ==
    /\ tp_pc = "call"
    /\ tp_ret' = find_transition_point(tp_args.aerial_x, tp_args.aerial_y,
                                       tp_args.sim_x, tp_args.sim_y,
                                       tp_args.smoothing_window)
    /\ tp_pc' = "returned"
    /\ UNCHANGED <<tp_args, run_vars, pod_vars, as_vars, other_vars>>

TPNext == CallFindTransitionPoint

SpecTP == TPInit /\ [][TPNext]_vars

(***************************************************************************)
(* find_transition_point called on arrays of any shape                     *)
(***************************************************************************)
\* a value column of the given number of rows: ascending sizes inside the
\* grid, or NaN in every row
TPShapeXColumn(rows, allnan) == [i \in 1..rows |-> IF allnan THEN NaN
                                                   ELSE IF i = 1 THEN 8 ELSE 12]

\* a cumulative column of the given number of rows, falling to 0 in the last
TPShapeYColumn(rows) == [i \in 1..rows |-> IF i = rows THEN 0 ELSE 24]

\* an array of the shape <<rows, cols>>; a value array may have NaN in the
\* whole of its first column
TPShapeX(shape, nanfirst) ==
    [c \in 1..shape[2] |-> TPShapeXColumn(shape[1], nanfirst /\ c = 1)]

TPShapeY(shape) == [c \in 1..shape[2] |-> TPShapeYColumn(shape[1])]

\* numpy's shape of an array: at least one row, any number of columns
TPShapes == (1..TPRows) \X (0..TPCols)

TPShapeInit ==
    /\ tp_pc = "call"
    /\ tp_ret = TPNoResult
    /\ pc = "unused"
    /\ cfg = <<>>
    /\ simulated_sample = <<>>
    /\ emiss = <<>>
    /\ wind_norm_emiss = <<>>
    /\ partial_detection_emiss = <<>>
    /\ prod_tp = <<>>
    /\ prod_combined_samples = <<>>
    /\ prod_partial_detection_emissions = <<>>
    /\ combined_sort_idx = <<>>
    /\ n = 0
    /\ err = "none"
    /\ outputs_written = FALSE
    /\ PoD = <<>>
    /\ CurveUnused
    /\ SamplerUnused
    /\ \E shape \in [{"aerial_x", "aerial_y", "sim_x", "sim_y"} -> TPShapes] :
       \E aerial_nan, sim_nan \in BOOLEAN :
          tp_args = [aerial_x |-> TPShapeX(shape["aerial_x"], aerial_nan),
                     aerial_y |-> TPShapeY(shape["aerial_y"]),
                     sim_x |-> TPShapeX(shape["sim_x"], sim_nan),
                     sim_y |-> TPShapeY(shape["sim_y"]),
                     smoothing_window |-> smoothing_window_default,
                     shape |-> shape]
    /\ OthersUnused

SpecTPShape == TPShapeInit /\ [][TPNext]_vars

(***************************************************************************)
(* make_aerial_samples from the sample on: partial detection, then the     *)
(* sort, with any detection curve                                          *)
(***************************************************************************)
\* the (emission, wind-normalized emission) cells of the sample: a visit
\* without a plume, and plumes at wind-normalized values where every curve
\* has a value whose numerator divides the mass unit
PDCells == {<<0, 0>>, <<6, 2>>, <<6, 8>>, <<12, 12>>, <<12, 16>>}

PDInit ==
    /\ pc = "partial_detection"
    /\ cfg \in [prod_transition_point : {<<>>},
                partial_detection_correction : BOOLEAN,
                PoD_fn : PoDCurves]
    /\ \E drawn \in Matrices(Columns(PDCells, NumAerialRows), NMC) :
          /\ emiss = [c \in 1..NMC |-> [r \in 1..NumAerialRows |-> drawn[c][r][1]]]
          /\ wind_norm_emiss = [c \in 1..NMC |-> [r \in 1..NumAerialRows |-> drawn[c][r][2]]]
    /\ simulated_sample = <<>>
    /\ partial_detection_emiss = <<>>
    /\ prod_tp = <<>>
    /\ prod_combined_samples = <<>>
    /\ prod_partial_detection_emissions = <<>>
    /\ combined_sort_idx = <<>>
    /\ n = 0
    /\ err = "none"
    /\ outputs_written = FALSE
    /\ PoD = <<>>
    /\ FinderUnused
    /\ CurveUnused
    /\ SamplerUnused
    /\ OthersUnused

PDNext ==
    \/ ComputePartialDetection
    \/ SortAerialSamples

SpecPD == PDInit /\ [][PDNext]_vars

(***************************************************************************)
(* The reference detection curves called on their own                      *)
(***************************************************************************)
\* the largest wind-normalized value of the direct calls
PoDMaxWind == 20

\* the rows of the one-column array of the direct calls
PoDRows == 2

PoDInit ==
    /\ pod_pc = "call"
    /\ pod_args \in Matrices(Columns(0..PoDMaxWind, PoDRows), 1)
    /\ pod_ret = <<>>
    /\ PipelineUnused
    /\ cfg = <<>>
    /\ FinderUnused
    /\ SamplerUnused
    /\ OthersUnused

\* PoD_bin(wind_normalized_emm)
CallPoD_bin ==
    /\ pod_pc = "call"
    /\ pod_ret' = [curve |-> "PoD_bin",
                   pod |-> [c \in 1..Len(pod_args) |->
                              [r \in 1..Len(pod_args[c]) |-> PoD_bin(pod_args[c][r])]]]
    /\ pod_pc' = "returned"
    /\ UNCHANGED <<pod_args, run_vars, tp_vars, as_vars, other_vars>>

\* PoD_linear(wind_normalized_emm)
CallPoD_linear ==
    /\ pod_pc = "call"
    /\ pod_ret' = [curve |-> "PoD_linear",
                   pod |-> [c \in 1..Len(pod_args) |->
                              [r \in 1..Len(pod_args[c]) |-> PoD_linear(pod_args[c][r])]]]
    /\ pod_pc' = "returned"
    /\ UNCHANGED <<pod_args, run_vars, tp_vars, as_vars, other_vars>>

PoDNext ==
    \/ CallPoD_bin
    \/ CallPoD_linear

SpecPoD == PoDInit /\ [][PoDNext]_vars

(***************************************************************************)
(* get_aerial_survey_sample: the slots of every source, the draw, the      *)
(* split into two matrices, and the post-processing of the emissions       *)
(***************************************************************************)
\* A slot of df holds NaN (written <<>>), the scalar 0 of a visit without a
\* plume (written <<0>>), or the tuple (emission, wind-normalized emission).
SlotNaN == <<>>

SlotZero == <<0>>

SlotIsNaN(v) == Len(v) = 0

\* type(s) == tuple
SlotIsTuple(v) == Len(v) = 2

\* s[0] if type(s)==tuple else s
SlotEmission(v) == v[1]

\* s[1] if type(s)==tuple else s
SlotWindNorm(v) == IF SlotIsTuple(v) THEN v[2] ELSE v[1]

\* the sources of the source table
NumSources == 2

\* the largest coverage_count, and the most plumes of one source
MaxCoverage == 2

\* the k-th observed plume of a source: (emission, wind-normalized emission)
ObservedPlume(k) == <<6 * k, 5 * k - 2>>

\* the lists the groupby makes of the plumes of one source
PlumeLists == {[k \in 1..len |-> ObservedPlume(k)] : len \in 0..MaxCoverage}

\* roams.aerial.assumptions.linear
linear(emissions_rate, slope, intercept) == slope * emissions_rate + intercept

\* cfg.correction_fn for one cell, when one is configured: linear with
\* slope 2 and intercept -7
correction_fn(e) == linear(e, 2, -7)

\* the factors np.random draws for one cell of the noise
NoiseDraws == {-1, 2}

\* roams.aerial.assumptions.zero_out, and the tests' lambda em: em
handle_negative(name, e) ==
    IF name = "zero_out" THEN (IF e < 0 THEN 0 ELSE e) ELSE e

\* coverage_count.max()
max_count == SetMax({infra_sources[s] : s \in 1..Len(infra_sources)})

ASInit ==
    /\ as_pc = "build"
    /\ infra_sources \in [1..NumSources -> 0..MaxCoverage]
    /\ infra_plumes \in [1..NumSources -> PlumeLists]
    /\ \E s \in 1..NumSources : infra_sources[s] > 0
    /\ \E s \in 1..NumSources : Len(infra_plumes[s]) > 0
    /\ cfg \in [correction_fn : {"None", "linear"},
                simulate_error : BOOLEAN,
                handle_negative : {"zero_out", "identity"}]
    /\ df = <<>>
    /\ sample = <<>>
    /\ emissions = <<>>
    /\ wind_normalized_em = <<>>
    /\ noise = <<>>
    /\ PipelineUnused
    /\ FinderUnused
    /\ CurveUnused
    /\ OthersUnused

\* the loop over range(max_count): the col-th plume where the source has one,
\* then 0 where the source was covered more than col times
BuildSlots ==
    /\ as_pc = "build"
    /\ df' = [s \in 1..Len(infra_sources) |->
                [col \in 1..max_count |->
                    IF Len(infra_plumes[s]) > col - 1 THEN infra_plumes[s][col]
                    ELSE IF infra_sources[s] > col - 1 THEN SlotZero
                    ELSE SlotNaN]]
    /\ as_pc' = "sample"
    /\ UNCHANGED <<infra_sources, infra_plumes, sample, emissions,
                   wind_normalized_em, noise, run_vars, tp_vars, pod_vars, other_vars>>

\* the slots row.sample can draw for a source: weight 1 where not NaN
Drawable(s) == {col \in 1..Len(df[s]) : ~SlotIsNaN(df[s][col])}

\* df.apply(row.sample(n_mc_samples, replace=True, weights=...)): pandas
\* raises ValueError when the weights of a row sum to zero
SampleSlots ==
    /\ as_pc = "sample"
    /\ IF \E s \in 1..Len(df) : Drawable(s) = {}
       THEN /\ as_pc' = "ValueError"
            /\ UNCHANGED sample
       ELSE /\ \E drawn \in [1..Len(df) -> [1..NMC -> 1..max_count]] :
                  /\ \A s \in 1..Len(df) : \A c \in 1..NMC : drawn[s][c] \in Drawable(s)
                  /\ sample' = [s \in 1..Len(df) |-> [c \in 1..NMC |-> df[s][drawn[s][c]]]]
            /\ as_pc' = "split"
    /\ UNCHANGED <<infra_sources, infra_plumes, df, emissions,
                   wind_normalized_em, noise, run_vars, tp_vars, pod_vars, other_vars>>

SplitSample ==
    /\ as_pc = "split"
    /\ emissions' = [s \in 1..Len(sample) |-> [c \in 1..NMC |-> SlotEmission(sample[s][c])]]
    /\ wind_normalized_em' = [s \in 1..Len(sample) |-> [c \in 1..NMC |-> SlotWindNorm(sample[s][c])]]
    /\ as_pc' = "correction"
    /\ UNCHANGED <<infra_sources, infra_plumes, df, sample, noise,
                   run_vars, tp_vars, pod_vars, other_vars>>

\* the correction applied to the wind-normalized matrix as well
ApplyCorrectionToBoth ==
    /\ as_pc = "correction"
    /\ IF cfg.correction_fn # "None"
       THEN /\ emissions' = [s \in 1..Len(emissions) |->
                               [c \in 1..NMC |-> correction_fn(emissions[s][c])]]
            /\ wind_normalized_em' = [s \in 1..Len(emissions) |->
                               [c \in 1..NMC |-> correction_fn(wind_normalized_em[s][c])]]
       ELSE UNCHANGED <<emissions, wind_normalized_em>>
    /\ as_pc' = "noise"
    /\ UNCHANGED <<infra_sources, infra_plumes, df, sample,
                   noise, run_vars, tp_vars, pod_vars, other_vars>>

\* if self.cfg.correction_fn is not None: emissions = correction_fn(emissions)
ApplyCorrection ==
    /\ as_pc = "correction"
    /\ IF cfg.correction_fn # "None"
       THEN emissions' = [s \in 1..Len(emissions) |->
                            [c \in 1..NMC |-> correction_fn(emissions[s][c])]]
       ELSE UNCHANGED emissions
    /\ as_pc' = "noise"
    /\ UNCHANGED <<infra_sources, infra_plumes, df, sample, wind_normalized_em,
                   noise, run_vars, tp_vars, pod_vars, other_vars>>

\* the noise applied to the sampled emissions and the correction after it
ApplyNoiseBeforeCorrection ==
    /\ as_pc = "noise"
    /\ IF cfg.simulate_error
       THEN \E drawn \in [1..Len(emissions) -> [1..NMC -> NoiseDraws]] :
               /\ noise' = drawn
               /\ emissions' = [s \in 1..Len(emissions) |->
                                  [c \in 1..NMC |->
                                     IF cfg.correction_fn # "None"
                                     THEN correction_fn(drawn[s][c] * SlotEmission(sample[s][c]))
                                     ELSE drawn[s][c] * emissions[s][c]]]
       ELSE UNCHANGED <<noise, emissions>>
    /\ as_pc' = "negative"
    /\ UNCHANGED <<infra_sources, infra_plumes, df, sample, wind_normalized_em,
                   run_vars, tp_vars, pod_vars, other_vars>>

\* if self.cfg.simulate_error: emissions = noise_fn(emissions), the noise
\* function being draws of the shape of emissions times emissions
ApplyNoise ==
    /\ as_pc = "noise"
    /\ IF cfg.simulate_error
       THEN \E drawn \in [1..Len(emissions) -> [1..NMC -> NoiseDraws]] :
               /\ noise' = drawn
               /\ emissions' = [s \in 1..Len(emissions) |->
                                  [c \in 1..NMC |-> drawn[s][c] * emissions[s][c]]]
       ELSE UNCHANGED <<noise, emissions>>
    /\ as_pc' = "negative"
    /\ UNCHANGED <<infra_sources, infra_plumes, df, sample, wind_normalized_em,
                   run_vars, tp_vars, pod_vars, other_vars>>

\* emissions = self.cfg.handle_negative(emissions); return
HandleNegative ==
    /\ as_pc = "negative"
    /\ emissions' = [s \in 1..Len(emissions) |->
                       [c \in 1..NMC |-> handle_negative(cfg.handle_negative, emissions[s][c])]]
    /\ as_pc' = "returned"
    /\ UNCHANGED <<infra_sources, infra_plumes, df, sample, wind_normalized_em,
                   noise, run_vars, tp_vars, pod_vars, other_vars>>

ASNext ==
    \/ BuildSlots
    \/ SampleSlots
    \/ SplitSample
    \/ ApplyCorrection
    \/ ApplyNoise
    \/ HandleNegative

SpecAS == ASInit /\ [][ASNext]_vars

(***************************************************************************)
(* stratify_sample: the bins of simulated production, the samples to take  *)
(* in each bin, the draws bin by bin, and the sort                         *)
(***************************************************************************)
\* the quantiles are multiples of 1/QuantileScale, and the bin edges are kept
\* in units of 1/QuantileScale of a production unit
QuantileScale == 4

\* the largest production value
MaxProduction == 3

\* the most covered-productivity values
MaxCovered == 6

\* the most simulated wells
MaxSimulated == 3

\* the largest n_infra
MaxInfra == 2

\* the `quantiles` arguments: one bin, two bins, QuantileScale bins
QuantileSets ==
    {<<0, QuantileScale>>,
     <<0, QuantileScale \div 2, QuantileScale>>,
     [i \in 1..(QuantileScale + 1) |-> i - 1]}

\* the ascending arrays of 1..len production values
ProductionArrays(len) ==
    UNION {{a \in [1..k -> 0..MaxProduction] : IsSorted(a)} : k \in 1..len}

\* the simulated emissions of k wells, the largest first
EmissionsOf(k) == [i \in 1..k |-> 10 * (k + 1 - i)]

\* np.quantile(a, q) for the ascending array a and q = k/QuantileScale, times
\* QuantileScale: linear interpolation at the position q*(len(a) - 1)
Quantile(a, k) ==
    LET pos == k * (Len(a) - 1)
        j == pos \div QuantileScale
        f == pos % QuantileScale
    IN  IF f = 0 THEN QuantileScale * a[j + 1]
        ELSE QuantileScale * a[j + 1] + f * (a[j + 2] - a[j + 1])

\* np.quantile(sim_production, quantiles), then the first edge set to 0 and
\* the last to infinity
BinEdges(sim_production, quantiles) ==
    [i \in 1..Len(quantiles) |->
        IF i = 1 THEN 0
        ELSE IF i = Len(quantiles) THEN Inf
        ELSE Quantile(sim_production, quantiles[i])]

\* pd.cut accepts only increasing, unique bin edges
CutAccepts(edges) == \A i \in 1..(Len(edges) - 1) : edges[i] < edges[i + 1]

\* pd.cut(..., right=False): the bin of a covered productivity value
InCutBin(edges, b, v) ==
    edges[b] <= QuantileScale * v /\ QuantileScale * v < edges[b + 1]

\* (sim_production>p_min) & (sim_production<=p_max)
InSimBin(edges, b, v) ==
    edges[b] < QuantileScale * v /\ QuantileScale * v <= edges[b + 1]

\* groupby(pd.cut(...)).count(): the covered productivity values of bin b
BinCount(edges, covered, b) ==
    Cardinality({i \in 1..Len(covered) : InCutBin(edges, b, covered[i])})

SumSeq(q) == LET c == Cumsum(q) IN IF Len(q) = 0 THEN 0 ELSE c[Len(q)]

\* (count*n_infra/len + .5).astype(int) with the half forgotten
RoundDown(num, den) == num \div den

\* (count*n_infra/len + .5).astype(int)
RoundHalfUp(num, den) == (2 * num + den) \div (2 * den)

\* the 20% test with a strict comparison
TooMuchRoundedToZeroStrict(counts, n_infra, len) ==
    LET small == [b \in 1..Len(counts) |->
                    IF 2 * counts[b] * n_infra < len THEN counts[b] ELSE 0]
    IN  5 * SumSeq(small) > len

\* prod_count_by_bin[prod_count_by_bin<.5].sum()/n_infra >= .20, where
\* prod_count_by_bin is count*n_infra/len: the n_infra cancels
TooMuchRoundedToZero(counts, n_infra, len) ==
    LET small == [b \in 1..Len(counts) |->
                    IF 2 * counts[b] * n_infra < len THEN counts[b] ELSE 0]
    IN  5 * SumSeq(small) >= len

\* idxmax(): the first of the largest bins
LargestGroup(rounded) ==
    SetMin({b \in 1..Len(rounded) : \A k \in 1..Len(rounded) : rounded[k] <= rounded[b]})

\* the rounded counts with the largest bin changed so that they sum to n_infra
AdjustLargest(rounded, n_infra) ==
    [rounded EXCEPT ![LargestGroup(rounded)] = @ + (n_infra - SumSeq(rounded))]

STInit ==
    /\ st_pc = "call"
    /\ \E sim_production \in ProductionArrays(MaxSimulated),
          covered_productivity \in ProductionArrays(MaxCovered),
          n_infra \in 1..MaxInfra,
          quantiles \in QuantileSets,
          missing \in 0..1 :
          st_args = [sim_emissions |-> EmissionsOf(Len(sim_production) - missing),
                     sim_production |-> sim_production,
                     covered_productivity |-> covered_productivity,
                     n_infra |-> n_infra,
                     quantiles |-> quantiles]
    /\ sim_quantiles = <<>>
    /\ prod_count_by_bin = <<>>
    /\ stratified_sample = <<>>
    /\ PipelineUnused
    /\ cfg = <<>>
    /\ FinderUnused
    /\ CurveUnused
    /\ SamplerUnused
    /\ CutoffsUnused
    /\ SeedUnused

\* the length check, the bin edges, the counts per bin, the 20% check, the
\* rounding and the adjustment of the largest bin
StratifyBins ==
    /\ st_pc = "call"
    /\ LET edges == BinEdges(st_args.sim_production, st_args.quantiles)
           len == Len(st_args.covered_productivity)
           counts == [b \in 1..(Len(edges) - 1) |->
                        BinCount(edges, st_args.covered_productivity, b)]
           rounded == [b \in 1..Len(counts) |->
                         RoundHalfUp(counts[b] * st_args.n_infra, len)]
       IN  IF Len(st_args.sim_emissions) # Len(st_args.sim_production)
           THEN /\ st_pc' = "ValueError: lengths"
                /\ UNCHANGED <<sim_quantiles, prod_count_by_bin>>
           ELSE IF ~CutAccepts(edges)
           THEN /\ st_pc' = "ValueError: bin edges"
                /\ sim_quantiles' = edges
                /\ UNCHANGED prod_count_by_bin
           ELSE IF TooMuchRoundedToZero(counts, st_args.n_infra, len)
           THEN /\ st_pc' = "ValueError: 20%"
                /\ sim_quantiles' = edges
                /\ prod_count_by_bin' = counts
           ELSE /\ st_pc' = "draw"
                /\ sim_quantiles' = edges
                /\ prod_count_by_bin' = AdjustLargest(rounded, st_args.n_infra)
    /\ UNCHANGED <<st_args, stratified_sample, run_vars, tp_vars, pod_vars, as_vars,
                   cut_vars, seed_vars>>

\* the simulated emissions of the wells whose production is in bin b
BinEmissions(b) ==
    {st_args.sim_emissions[i] : i \in {k \in 1..Len(st_args.sim_production) :
                                        InSimBin(sim_quantiles, b, st_args.sim_production[k])}}

\* one turn of the loop over the bins: np.random.choice(em, (n_samples,
\* n_mc_samples)) raises ValueError for a negative n_samples, and for an
\* empty em unless no samples are taken
StratifyDrawBin ==
    /\ st_pc = "draw"
    /\ Len(stratified_sample) < Len(prod_count_by_bin)
    /\ LET b == Len(stratified_sample) + 1
           n_samples == prod_count_by_bin[b]
           em == BinEmissions(b)
       IN  IF n_samples < 0 \/ (em = {} /\ n_samples # 0)
           THEN /\ st_pc' = "ValueError: choice"
                /\ UNCHANGED stratified_sample
           ELSE /\ \E drawn \in [1..n_samples -> [1..NMC -> em]] :
                      stratified_sample' = Append(stratified_sample, drawn)
                /\ UNCHANGED st_pc
    /\ UNCHANGED <<st_args, sim_quantiles, prod_count_by_bin, run_vars, tp_vars,
                   pod_vars, as_vars, cut_vars, seed_vars>>

RECURSIVE Flatten(_)
\* the rows of the blocks, one after the other
Flatten(blocks) ==
    IF Len(blocks) = 0 THEN <<>> ELSE blocks[1] \o Flatten(Tail(blocks))

\* the return with the sort forgotten
StratifyReturnUnsorted ==
    /\ st_pc = "draw"
    /\ Len(stratified_sample) = Len(prod_count_by_bin)
    /\ LET rows == Flatten(stratified_sample)
       IN  stratified_sample' =
              [c \in 1..NMC |->
                 [r \in 1..st_args.n_infra |->
                    IF r <= Len(rows) THEN rows[r][c] ELSE 0]]
    /\ st_pc' = "returned"
    /\ UNCHANGED <<st_args, sim_quantiles, prod_count_by_bin, run_vars, tp_vars,
                   pod_vars, as_vars, cut_vars, seed_vars>>

\* stratified_sample.sort(axis=0); return: the rows never written are zeros
StratifySortReturn ==
    /\ st_pc = "draw"
    /\ Len(stratified_sample) = Len(prod_count_by_bin)
    /\ LET rows == Flatten(stratified_sample)
       IN  stratified_sample' =
              [c \in 1..NMC |->
                 SortedColumn([r \in 1..st_args.n_infra |->
                                 IF r <= Len(rows) THEN rows[r][c] ELSE 0])]
    /\ st_pc' = "returned"
    /\ UNCHANGED <<st_args, sim_quantiles, prod_count_by_bin, run_vars, tp_vars,
                   pod_vars, as_vars, cut_vars, seed_vars>>

STNext ==
    \/ StratifyBins
    \/ StratifyDrawBin
    \/ StratifySortReturn

SpecST == STInit /\ [][STNext]_vars

(***************************************************************************)
(* AerialSurveyData.handle_cutoffs                                         *)
(***************************************************************************)
\* the plumes of the plume file, the sources of the source file and the
\* coverage count of a source are at most these
MaxCutPlumes == 2

NumCutSources == 2

MaxCutCoverage == 2

\* A plume: its source, its cut-off flag and the column the cut-off
\* observations are counted in (NaN for a missing value).
CutPlumes == [source_id : 1..NumCutSources, cutoff : BOOLEAN, em : {NaN, 35}]

PlumeTables ==
    UNION {[1..len -> CutPlumes] : len \in 0..MaxCutPlumes}

SourceTables ==
    {[i \in 1..NumCutSources |-> [source_id |-> i, coverage_count |-> c[i]]] :
        c \in [1..NumCutSources -> 0..MaxCutCoverage]}

\* The constructor has read both files and calls handle_cutoffs.
CutInit ==
    /\ PipelineUnused
    /\ cfg = <<>>
    /\ FinderUnused
    /\ CurveUnused
    /\ SamplerUnused
    /\ StratifyUnused
    /\ SeedUnused
    /\ cut_pc = "call"
    /\ cutoff_col \in {"None", "cutoff"}
    /\ raw_plumes \in PlumeTables
    /\ raw_source \in SourceTables
    /\ \E has_col \in BOOLEAN, cutoff_handling \in {"drop", "resample"} :
          /\ ~has_col => \A k \in 1..Len(raw_plumes) : ~raw_plumes[k].cutoff
          /\ cut_args = [cutoff_handling |-> cutoff_handling,
                         has_col |-> has_col,
                         raw_plumes |-> raw_plumes,
                         raw_source |-> raw_source]
    /\ source_ids = <<>>

\* the early return, the missing column and the choice of the handling
HandleCutoffsCheck ==
    /\ cut_pc = "call"
    /\ cut_pc' = IF cutoff_col = "None" THEN "returned"
                 ELSE IF ~cut_args.has_col THEN "KeyError"
                 ELSE IF cut_args.cutoff_handling = "drop" THEN "drop"
                 ELSE "ValueError"
    /\ UNCHANGED <<cutoff_col, raw_plumes, raw_source, cut_args, source_ids,
                   run_vars, tp_vars, pod_vars, as_vars, st_vars, seed_vars>>

\* cutoff_plumes.groupby(source_id)[[count_col]].count(): one row per source
\* with a cut-off plume, counting the values of count_col that are not missing
CountCutoffs(plumes) ==
    Keep([i \in 1..NumCutSources |->
            [source_id |-> i,
             count |-> Cardinality({k \in 1..Len(plumes) :
                          /\ plumes[k].source_id = i
                          /\ plumes[k].cutoff
                          /\ ~IsNaN(plumes[k].em)})]],
         {plumes[k].source_id : k \in {j \in 1..Len(plumes) : plumes[j].cutoff}})

\* the cut-off plumes are picked out, counted, and removed from the plumes
DropCutoffPlumes ==
    /\ cut_pc = "drop"
    /\ source_ids' = CountCutoffs(raw_plumes)
    /\ raw_plumes' = Keep(raw_plumes,
                          {k \in 1..Len(raw_plumes) : ~raw_plumes[k].cutoff})
    /\ cut_pc' = "decrement"
    /\ UNCHANGED <<cutoff_col, raw_source, cut_args,
                   run_vars, tp_vars, pod_vars, as_vars, st_vars, seed_vars>>

\* The loop over the sources with a cut-off plume.  Its body reads self.loc,
\* which the class does not have: the first iteration raises AttributeError
\* before any coverage count is written.
DecrementCoverage ==
    /\ cut_pc = "decrement"
    /\ cut_pc' = IF Len(source_ids) = 0 THEN "remove" ELSE "AttributeError"
    /\ UNCHANGED <<cutoff_col, raw_plumes, raw_source, cut_args, source_ids,
                   run_vars, tp_vars, pod_vars, as_vars, st_vars, seed_vars>>

\* the sources with no coverage left are removed
RemoveUncovered ==
    /\ cut_pc = "remove"
    /\ raw_source' = Keep(raw_source,
                          {i \in 1..Len(raw_source) : raw_source[i].coverage_count > 0})
    /\ cut_pc' = "returned"
    /\ UNCHANGED <<cutoff_col, raw_plumes, cut_args, source_ids,
                   run_vars, tp_vars, pod_vars, as_vars, st_vars, seed_vars>>

CutNext ==
    \/ HandleCutoffsCheck
    \/ DropCutoffPlumes
    \/ DecrementCoverage
    \/ RemoveUncovered

SpecCut == CutInit /\ [][CutNext]_vars

(***************************************************************************)
(* Two runs in one process: ROAMSModel(input), then perform_analysis(),    *)
(* twice, as the scripts run it.  Every draw of a run reads the global     *)
(* stream of np.random: np.random.choice, the noise function taken from    *)
(* np.random, and pandas' row.sample, which falls back to that stream when *)
(* it is given no random_state.                                            *)
(***************************************************************************)
\* the outputs one step of the generator can have
RawOutcomes == 2

RawValues == 0..(RawOutcomes - 1)

\* config["random_seed"]: <<>> for None, <<s>> for a number
Seeds == {<<>>, <<1>>, <<2>>}

\* the runs of one process
SeedRuns == 2

\* The inputs of the seeded runs: two simulated emissions, one source per
\* asset group with one plume of 12 seen in one of two visits, two wells,
\* one Monte Carlo iteration, the transition point configured as 7.
SeedSimulatedEmissions == <<4, 8>>

SeedSlots == <<12, 0>>

SeedTransitionPoint == 7

SeedWells == 2

\* the element a draw with replacement takes from an array
Choice(a, raw) == a[(raw % Len(a)) + 1]

\* the multiplier the noise function makes of one output of the generator
NoiseOf(raw) == 1 + raw

\* The generator is a fixed but unknown function of the seed and the
\* position; the outputs read so far are remembered, and a position never
\* read may give any output.  The next k outputs of the stream:
StreamDraws(k) ==
    {v \in [1..k -> RawValues] :
        \A i \in 1..k : \A p \in generator[np_random.seed] :
            p[1] = np_random.pos + i => v[i] = p[2]}

\* the generator and the stream after the outputs v were read
GeneratorAfter(v) ==
    [generator EXCEPT ![np_random.seed] =
        @ \cup {<<np_random.pos + i, v[i]>> : i \in 1..Len(v)}]

StreamAfter(v) == [np_random EXCEPT !.pos = @ + Len(v)]

SeedInit ==
    /\ PipelineUnused
    /\ cfg = <<>>
    /\ FinderUnused
    /\ CurveUnused
    /\ SamplerUnused
    /\ StratifyUnused
    /\ CutoffsUnused
    /\ seed_pc = "construct"
    /\ np_random = <<>>
    /\ generator = [s \in Seeds |-> {}]
    /\ runs = <<>>
    /\ this_run = <<>>

\* the configuration read with the stream left where the process has it
ConstructSeededKeepsPosition ==
    /\ seed_pc = "construct"
    /\ \E seed \in Seeds, simulate_error \in BOOLEAN :
          /\ np_random' = [seed |-> seed,
                           pos |-> IF np_random = <<>> THEN 0 ELSE np_random.pos]
          /\ generator' = IF seed = <<>> THEN [generator EXCEPT ![<<>>] = {}]
                          ELSE generator
          /\ this_run' = [random_seed |-> seed,
                          simulate_error |-> simulate_error,
                          simulated_sample |-> <<>>,
                          aerial_samples |-> <<>>,
                          prod_combined_samples |-> <<>>,
                          err |-> "none",
                          drew |-> <<>>]
    /\ seed_pc' = "make_simulated_sample"
    /\ UNCHANGED <<runs, run_vars, tp_vars, pod_vars, as_vars, st_vars, cut_vars>>

\* ROAMSModel(input): the configuration is read and np.random.seed(seed) puts
\* the global stream at the start of the seed's sequence; a seed of None
\* starts a sequence never seen before
ConstructSeeded ==
    /\ seed_pc = "construct"
    /\ \E seed \in Seeds, simulate_error \in BOOLEAN :
          /\ np_random' = [seed |-> seed, pos |-> 0]
          /\ generator' = IF seed = <<>> THEN [generator EXCEPT ![<<>>] = {}]
                          ELSE generator
          /\ this_run' = [random_seed |-> seed,
                          simulate_error |-> simulate_error,
                          simulated_sample |-> <<>>,
                          aerial_samples |-> <<>>,
                          prod_combined_samples |-> <<>>,
                          err |-> "none",
                          drew |-> <<>>]
    /\ seed_pc' = "make_simulated_sample"
    /\ UNCHANGED <<runs, run_vars, tp_vars, pod_vars, as_vars, st_vars, cut_vars>>

\* make_simulated_sample without stratification: one draw per well, sorted
SeededSimulatedSample ==
    /\ seed_pc = "make_simulated_sample"
    /\ \E v \in StreamDraws(SeedWells) :
          /\ this_run' =
                [this_run EXCEPT
                    !.simulated_sample =
                        <<SortedColumn([r \in 1..SeedWells |->
                                          Choice(SeedSimulatedEmissions, v[r])])>>,
                    !.drew = Append(@, "simulated")]
          /\ generator' = GeneratorAfter(v)
          /\ np_random' = StreamAfter(v)
    /\ seed_pc' = "make_aerial_samples"
    /\ UNCHANGED <<runs, run_vars, tp_vars, pod_vars, as_vars, st_vars, cut_vars>>

\* make_aerial_samples: for the production group, then the midstream group,
\* the slot of the source is drawn, then the noise when simulate_error is set
SeededAerialSamples ==
    /\ seed_pc = "make_aerial_samples"
    /\ LET per_group == IF this_run.simulate_error THEN 2 ELSE 1
           group_emissions(v, g) ==
               Choice(SeedSlots, v[(g - 1) * per_group + 1])
                 * (IF this_run.simulate_error THEN NoiseOf(v[g * per_group]) ELSE 1)
       IN  \E v \in StreamDraws(2 * per_group) :
              /\ this_run' =
                    [this_run EXCEPT
                        !.aerial_samples = [production |-> <<<<group_emissions(v, 1)>>>>,
                                            midstream |-> <<<<group_emissions(v, 2)>>>>],
                        !.drew = Append(@, "aerial")]
              /\ generator' = GeneratorAfter(v)
              /\ np_random' = StreamAfter(v)
    /\ seed_pc' = "combine_prod_samples"
    /\ UNCHANGED <<runs, run_vars, tp_vars, pod_vars, as_vars, st_vars, cut_vars>>

\* combine_prod_samples: the rows before the first aerial value at or above
\* the transition point are drawn from the simulated values below it, and
\* the column is sorted; the run ends, with the matrices or the IndexError
SeededCombine ==
    /\ seed_pc = "combine_prod_samples"
    /\ LET tp == SeedTransitionPoint
           padded == PadColumn(this_run.aerial_samples.production[1], SeedWells)
           sim_below_transition == SimBelowTransition(this_run.simulated_sample[1], tp)
           idx_above_transition == ArgminBelow(padded, tp)
           ended(run) ==
               /\ this_run' = run
               /\ runs' = Append(runs, run)
               /\ seed_pc' = IF Len(runs) + 1 = SeedRuns THEN "done" ELSE "construct"
       IN  IF Len(sim_below_transition) < idx_above_transition
           THEN /\ ended([this_run EXCEPT !.err = "IndexError"])
                /\ UNCHANGED <<generator, np_random>>
           ELSE \E v \in StreamDraws(idx_above_transition) :
                   /\ ended([this_run EXCEPT
                               !.prod_combined_samples =
                                   <<SortedColumn(
                                       [r \in 1..SeedWells |->
                                           IF r <= idx_above_transition
                                           THEN Choice(sim_below_transition, v[r])
                                           ELSE padded[r]])>>,
                               !.drew = IF idx_above_transition > 0
                                        THEN Append(@, "backfill") ELSE @])
                   /\ generator' = GeneratorAfter(v)
                   /\ np_random' = StreamAfter(v)
    /\ UNCHANGED <<run_vars, tp_vars, pod_vars, as_vars, st_vars, cut_vars>>

SeedNext ==
    \/ ConstructSeeded
    \/ SeededSimulatedSample
    \/ SeededAerialSamples
    \/ SeededCombine

SpecSeed == SeedInit /\ [][SeedNext]_vars

(***************************************************************************)
(* Properties of the combiner                                              *)
(***************************************************************************)
Combined == pc \in {"report", "done"}

\* the zero-padded aerial column the combiner starts from
PaddedAerial(c) == PadColumn(emiss[c], NumWells)

PaddedExtraMass(c) == PadColumn(partial_detection_emiss[c], NumWells)

\* the rows of the padded aerial column below the transition point: the rows
\* that hold no aerial observation at or above it
RowsBelowTransition(c) == {r \in 1..NumWells : PaddedAerial(c)[r] < prod_tp[c]}

SimBelowCount(c) == Len(SimBelowTransition(simulated_sample[c], prod_tp[c]))

\* the values of a column that satisfy a test, as a bag
BagOfRows(col, rows) ==
    LET vals == {col[r] : r \in rows}
    IN  [v \in vals |-> Cardinality({r \in rows : col[r] = v})]

\* the (emission, extra mass) row pairs of a column, as a bag
PairBag(em, pd) == BagOfRows([r \in 1..Len(em) |-> <<em[r], pd[r]>>], 1..Len(em))

\* C1 (as claimed): combine raises at a column exactly when the simulated
\* values of the column below its transition point are fewer than the rows
\* to replace, the rows of the padded aerial column below the transition
\* point: the raise happens only at such a column, and the loop passes no
\* such column without raising.
C1_BackfillSufficiency ==
    /\ (pc = "raised" /\ err = "IndexError")
          => SimBelowCount(n) < Cardinality(RowsBelowTransition(n))
    /\ (pc \in {"combine_loop", "combine_sort", "report", "done"} \/
        (pc = "raised" /\ err = "IndexError"))
          => \A c \in 1..NMC :
                (c < n \/ pc \notin {"combine_loop", "raised"})
                   => SimBelowCount(c) >= Cardinality(RowsBelowTransition(c))

\* C2 (as claimed): after combine, every row of the combined extra-mass
\* matrix whose combined emission is below the column's transition point (a
\* row that carries no aerial observation at or above it) holds 0.
C2_NoExtraMassBelowTransition ==
    Combined =>
        \A c \in 1..NMC : \A r \in 1..NumWells :
            prod_combined_samples[c][r] < prod_tp[c]
                => prod_partial_detection_emissions[c][r] = 0

\* C3 (as claimed): in every combined column the values at or above the
\* transition point are the aerial values of the column at or above it, as a
\* bag, and every value below it is a simulated value of the column below it.
C3_SpliceAtTransition ==
    Combined =>
        \A c \in 1..NMC :
            /\ BagOfRows(prod_combined_samples[c],
                         {r \in 1..NumWells : prod_combined_samples[c][r] >= prod_tp[c]})
               = BagOfRows(emiss[c], {r \in 1..NumAerialRows : emiss[c][r] >= prod_tp[c]})
            /\ \A r \in 1..NumWells :
                  prod_combined_samples[c][r] < prod_tp[c]
                     => \E k \in 1..NumWells :
                           /\ simulated_sample[c][k] < prod_tp[c]
                           /\ simulated_sample[c][k] = prod_combined_samples[c][r]

\* C4: after combine completes, every column of the combined emissions
\* matrix is non-decreasing from the first row to the last.
C4_CombinedColumnsSorted ==
    Combined => \A c \in 1..NMC : IsSorted(prod_combined_samples[c])

\* C4 witness: combine has completed and its sort put two rows of a column,
\* backfilled in descending order, into ascending order
C4_Witness ==
    /\ pc = "done"
    /\ \E c \in 1..NMC : \E r1, r2 \in 1..NumWells :
          /\ r1 < r2
          /\ combined_sort_idx[c][r1] > combined_sort_idx[c][r2]
          /\ prod_combined_samples[c][r1] < prod_combined_samples[c][r2]

\* C5: each sort of an emissions matrix (after the aerial sampling, and in
\* combine) applies the same row permutation to the extra-mass sibling: the
\* (emission, extra mass) row pairs of every sorted column are, as a bag, the
\* pairs the column had before the sort.
C5_SortKeepsRowPairs ==
    [][/\ pc = "sort_aerial" =>
            \A c \in 1..NMC :
                PairBag(emiss'[c], partial_detection_emiss'[c])
                = PairBag(emiss[c], partial_detection_emiss[c])
       /\ (pc = "combine_sort" /\ n <= NMC) =>
            PairBag(prod_combined_samples'[n], prod_partial_detection_emissions'[n])
            = PairBag(prod_combined_samples[n], prod_partial_detection_emissions[n])]_vars

\* C5 witness: the aerial sort has reversed a column whose two rows carry
\* different emissions and different extra mass
C5_Witness ==
    /\ pc = "combine"
    /\ \E c \in 1..NMC :
          /\ wind_norm_emiss[c][1] > wind_norm_emiss[c][2]
          /\ emiss[c][1] < emiss[c][2]
          /\ partial_detection_emiss[c][1] # partial_detection_emiss[c][2]

\* whether the first loop of combine has replaced rows of a column
Backfilled(c) == prod_combined_samples[c] # PaddedAerial(c)

\* C6 (as claimed): when combine raises, no combined matrix in which only
\* some columns have been backfilled is left in the model object.
C6_NoPartialEnsembleReadable ==
    pc = "raised" =>
        \/ prod_combined_samples = <<>>
        \/ ~\E c1, c2 \in 1..NMC :
              /\ Backfilled(c1)
              /\ ~Backfilled(c2)
              /\ RowsBelowTransition(c2) # {}

\* C6 (amended): when a step raises, the run stops there: the error is
\* pending exactly in the state "raised", which nothing leaves, and no output
\* has been written.  The combined matrix stays as the first loop left it:
\* the columns before the failing column n backfilled and not yet re-sorted,
\* the columns from n on still the zero-padded aerial sample.
C6_RaiseAbortsRun ==
    /\ err # "none" <=> pc = "raised"
    /\ pc = "raised" => ~outputs_written
    /\ (pc = "raised" /\ err = "IndexError") =>
          \A c \in 1..NMC :
              IF c >= n
              THEN /\ prod_combined_samples[c] = PaddedAerial(c)
                   /\ prod_partial_detection_emissions[c] = PaddedExtraMass(c)
              ELSE \A r \in 1..NumWells :
                      IF r <= ArgminBelow(PaddedAerial(c), prod_tp[c])
                      THEN /\ prod_combined_samples[c][r] < prod_tp[c]
                           /\ prod_partial_detection_emissions[c][r] = 0
                      ELSE /\ prod_combined_samples[c][r] = PaddedAerial(c)[r]
                           /\ prod_partial_detection_emissions[c][r] = PaddedExtraMass(c)[r]

\* C6 witness: combine raised at its second column after backfilling the first
C6_Witness ==
    /\ pc = "raised"
    /\ err = "IndexError"
    /\ n = 2
    /\ Backfilled(1)

\* the state of a column of the combiner, from where combine stands
ColumnPhase(c) ==
    IF pc = "combine_loop" \/ pc = "raised"
    THEN IF prod_combined_samples = <<>> THEN "absent"
         ELSE IF c < n THEN "backfilled" ELSE "raw"
    ELSE IF pc = "combine_sort"
    THEN IF c < n THEN "sorted" ELSE "backfilled"
    ELSE IF Combined THEN "sorted"
    ELSE "absent"

\* C7: each column of the combiner goes raw, backfilled, sorted in that
\* order and one step at a time; a column is sorted out of the backfilled
\* state only; and once a column is sorted nothing changes it or its extra
\* mass again.
C7_ColumnLifecycle ==
    [][\A c \in 1..NMC :
          /\ ColumnPhase(c)' # ColumnPhase(c) =>
                <<ColumnPhase(c), ColumnPhase(c)'>> \in
                    {<<"absent", "raw">>, <<"raw", "backfilled">>,
                     <<"backfilled", "sorted">>}
          /\ (ColumnPhase(c) = "raw" /\ ColumnPhase(c)' = "raw") =>
                prod_combined_samples'[c] = PaddedAerial(c)
          /\ ColumnPhase(c)' = "sorted" => IsSorted(prod_combined_samples'[c])
          /\ ColumnPhase(c) = "sorted" =>
                /\ prod_combined_samples'[c] = prod_combined_samples[c]
                /\ prod_partial_detection_emissions'[c]
                   = prod_partial_detection_emissions[c]]_vars

\* C7 witness: the first column is sorted, after a sort that moved its rows,
\* while the second is still to be sorted
C7_Witness ==
    /\ pc = "combine_sort"
    /\ n = 2
    /\ \E r1, r2 \in 1..NumWells :
          /\ r1 < r2
          /\ combined_sort_idx[1][r1] > combined_sort_idx[1][r2]
          /\ prod_combined_samples[1][r1] < prod_combined_samples[1][r2]

(***************************************************************************)
(* Properties of find_transition_point                                     *)
(***************************************************************************)
TPReturned == tp_pc = "returned"

TPColumnsOf(m) == 1..Len(m)

HasNaN(m) == \E c \in TPColumnsOf(m) : \E r \in 1..Len(m[c]) : IsNaN(m[c][r])

TPAnyNaN ==
    \/ HasNaN(tp_args.aerial_x)
    \/ HasNaN(tp_args.aerial_y)
    \/ HasNaN(tp_args.sim_x)
    \/ HasNaN(tp_args.sim_y)

\* diff of one column of the direct call
TPDiff(c) == Diff(tp_args.aerial_x[c], tp_args.aerial_y[c],
                  tp_args.sim_x[c], tp_args.sim_y[c], tp_args.smoothing_window)

\* The smoothed decay of a curve at the grid's first point, 5: the mass lost
\* over the first grid step.  It is the smoothed value of index 1, which the
\* program's offset of one index assigns to the grid's lower edge; the value
\* of index 0 is the difference of a number with itself.
FirstDecay(x, y) == SmoothDist(1, InterpDist(x, y), 1)

AerialDecaysFaster(c) ==
    FGt(FirstDecay(tp_args.aerial_x[c], tp_args.aerial_y[c]),
        FirstDecay(tp_args.sim_x[c], tp_args.sim_y[c]))

SimDecaysFaster(c) ==
    FGt(FirstDecay(tp_args.sim_x[c], tp_args.sim_y[c]),
        FirstDecay(tp_args.aerial_x[c], tp_args.aerial_y[c]))

\* C8 (as claimed): find_transition_point raises when in some column the
\* aerial smoothed decay exceeds the simulated one at the grid's first point,
\* and does not raise on the swapped inputs, where the simulated decay
\* exceeds the aerial one in every column.
C8_DecayOrderingPrecondition ==
    (TPReturned /\ ~TPAnyNaN) =>
        /\ (\E c \in 1..TPCols : AerialDecaysFaster(c)) => tp_ret.err = "ValueError"
        /\ (\A c \in 1..TPCols : SimDecaysFaster(c)) => tp_ret.err = "none"

\* C9: in every column where aerial_decay - sim_decay is positive at some
\* grid index after the start, the transition point returned is the grid
\* value of the first such index minus one grid step.
C9_TransitionBeforeFirstPositive ==
    (TPReturned /\ tp_ret.err = "none") =>
        \A c \in 1..TPCols :
            LET positive == {w \in 1..(GridLen - 1) : FGt(TPDiff(c)[w], 0)}
            IN  positive # {} =>
                   \E w \in positive :
                       /\ \A v \in positive : w <= v
                       /\ tp_ret.tps[c] = (GridLo + w) - 1

\* C9 witness: a call returned a transition point inside the grid, neither
\* its lower edge nor its last value
C9_Witness ==
    /\ TPReturned
    /\ tp_ret.err = "none"
    /\ \E c \in 1..TPCols : tp_ret.tps[c] > GridLo /\ tp_ret.tps[c] < max_interp_emiss - 1

\* C10 (as claimed): find_transition_point raises ValueError when any of its
\* four input arrays contains a NaN.
C10_NaNRaisesValueError ==
    (TPReturned /\ TPAnyNaN) => tp_ret.err = "ValueError"

\* whether the cumulative mass of some column of a matrix rises from one row
\* to the next
RisesSomewhere(m) ==
    \E c \in TPColumnsOf(m) : \E r \in 1..(Len(m[c]) - 1) : FGt(m[c][r + 1], m[c][r])

\* C11 (as claimed): find_transition_point raises an error when a cumulative
\* input column (aerial or simulated) is not monotonic: its remaining mass
\* increases somewhere as the value increases.
C11_NonMonotonicRaises ==
    (TPReturned /\ ~TPAnyNaN
        /\ (RisesSomewhere(tp_args.aerial_y) \/ RisesSomewhere(tp_args.sim_y)))
    => tp_ret.err # "none"

\* C12 (as claimed): find_transition_point raises IndexError whenever the
\* aerial and the simulated arrays differ in their number of columns, or a
\* distribution's value array and its cumulative array differ in their
\* number of rows.
C12_ShapeMismatchRaisesIndexError ==
    (TPReturned
        /\ \/ tp_args.shape["aerial_x"][2] # tp_args.shape["sim_x"][2]
           \/ tp_args.shape["aerial_y"][2] # tp_args.shape["sim_y"][2]
           \/ tp_args.shape["aerial_x"][1] # tp_args.shape["aerial_y"][1]
           \/ tp_args.shape["sim_x"][1] # tp_args.shape["sim_y"][1])
    => tp_ret.err = "IndexError"

\* every value of a matrix moved by d
TranslateValues(m, d) == [c \in 1..Len(m) |-> [r \in 1..Len(m[c]) |-> m[c][r] + d]]

\* every value of a matrix on the grid, from lo to the grid's last value
ValuesInside(m, lo) ==
    \A c \in 1..Len(m) : \A r \in 1..Len(m[c]) :
        m[c][r] >= lo /\ m[c][r] <= max_interp_emiss - 1

\* the translations of the value arrays
TPTranslations == (GridLo - max_interp_emiss)..(max_interp_emiss - GridLo)

\* the call on the translated value arrays and the same cumulative arrays
TranslatedCall(d) ==
    find_transition_point(TranslateValues(tp_args.aerial_x, d), tp_args.aerial_y,
                          TranslateValues(tp_args.sim_x, d), tp_args.sim_y,
                          tp_args.smoothing_window)

\* the grid's last value, which a column without a positive difference returns
GridLast == max_interp_emiss - 1

\* C13 (as claimed): adding the same integer d to every value of both value
\* arrays, the cumulative arrays unchanged and the values inside the grid
\* before and after, adds d to every returned transition point.
C13_TranslationAddsToEveryPoint ==
    (TPReturned /\ ~TPAnyNaN /\ tp_ret.err = "none"
        /\ ValuesInside(tp_args.aerial_x, GridLo) /\ ValuesInside(tp_args.sim_x, GridLo))
    => \A d \in TPTranslations :
          (/\ ValuesInside(TranslateValues(tp_args.aerial_x, d), GridLo)
           /\ ValuesInside(TranslateValues(tp_args.sim_x, d), GridLo))
          => TranslatedCall(d).tps = [c \in 1..TPCols |-> tp_ret.tps[c] + d]

\* C13 (amended): when every value is above the grid's first value and inside
\* the grid before and after the translation, d is added to the transition
\* point of every column for which both calls return a point other than the
\* grid's last value (the value of a column where the difference is positive
\* nowhere on the grid).
C13_TranslationAddsInsideGrid ==
    (TPReturned /\ ~TPAnyNaN /\ tp_ret.err = "none"
        /\ ValuesInside(tp_args.aerial_x, GridLo + 1)
        /\ ValuesInside(tp_args.sim_x, GridLo + 1))
    => \A d \in TPTranslations :
          (/\ ValuesInside(TranslateValues(tp_args.aerial_x, d), GridLo + 1)
           /\ ValuesInside(TranslateValues(tp_args.sim_x, d), GridLo + 1))
          => /\ TranslatedCall(d).err = "none"
             /\ \A c \in 1..TPCols :
                   (tp_ret.tps[c] # GridLast /\ TranslatedCall(d).tps[c] # GridLast)
                   => TranslatedCall(d).tps[c] = tp_ret.tps[c] + d

\* C13 witness: a call whose values can be moved inside the grid, with a
\* column whose transition point moves with them
C13_Witness ==
    /\ TPReturned /\ ~TPAnyNaN /\ tp_ret.err = "none"
    /\ ValuesInside(tp_args.aerial_x, GridLo + 1)
    /\ ValuesInside(tp_args.sim_x, GridLo + 1)
    /\ \E d \in TPTranslations \ {0} :
          /\ ValuesInside(TranslateValues(tp_args.aerial_x, d), GridLo + 1)
          /\ ValuesInside(TranslateValues(tp_args.sim_x, d), GridLo + 1)
          /\ \E c \in 1..TPCols :
                /\ tp_ret.tps[c] # GridLast
                /\ TranslatedCall(d).tps[c] = tp_ret.tps[c] + d
                /\ TranslatedCall(d).tps[c] # GridLast

(***************************************************************************)
(* Properties of the partial-detection correction                          *)
(***************************************************************************)
\* a probability outside 0 < p <= 1
InvalidPoD(p) == p[1] <= 0 \/ p[1] > p[2]

AerialCells == (1..NMC) \X (1..NumAerialRows)

\* C14 (as claimed): when the detection curve returns, for any cell, a
\* probability p <= 0 or p > 1, the correction raises an error and no
\* extra-mass matrix is produced from the curve.
C14_InvalidCurveRaises ==
    (PoD # <<>> /\ \E cl \in AerialCells : InvalidPoD(PoD[cl[1]][cl[2]]))
    => /\ pc = "raised"
       /\ err # "none"
       /\ partial_detection_emiss = <<>>

\* C15: right after the correction, each extra-mass cell is (1/p - 1) times
\* the emission of the same cell, p being the detection curve at the cell's
\* wind-normalized value (p * extra = (1 - p) * emission, in the mass unit);
\* when the curve returns 1 in every cell the extra-mass matrix is all zeros.
C15_ExtraMassFormula ==
    (pc = "sort_aerial" /\ cfg.partial_detection_correction)
    => /\ \A cl \in AerialCells :
             LET p == PoD_fn(cfg.PoD_fn, wind_norm_emiss[cl[1]][cl[2]])
             IN  p[1] > 0 =>
                    partial_detection_emiss[cl[1]][cl[2]] * p[1]
                    = emiss[cl[1]][cl[2]] * (p[2] - p[1]) * PodScale
       /\ (\A cl \in AerialCells :
               PoD_fn(cfg.PoD_fn, wind_norm_emiss[cl[1]][cl[2]]) = <<1, 1>>)
          => \A cl \in AerialCells : partial_detection_emiss[cl[1]][cl[2]] = 0

\* C15 witness: the correction has given one plume a positive extra mass
\* under a reference curve, and a visit without a plume none
C15_Witness ==
    /\ pc = "sort_aerial"
    /\ cfg.partial_detection_correction
    /\ cfg.PoD_fn = "PoD_linear"
    /\ \E c1, c2 \in AerialCells :
          /\ partial_detection_emiss[c1[1]][c1[2]] > 0
          /\ partial_detection_emiss[c1[1]][c1[2]] < Inf
          /\ emiss[c2[1]][c2[2]] = 0
          /\ partial_detection_emiss[c2[1]][c2[2]] = 0

\* C16: both reference curves return, for every non-negative wind-normalized
\* input, a probability p with 0 < p <= 1, and exactly 1 for the input 0.
C16_ReferenceCurvesInRange ==
    pod_pc = "returned" =>
        \A c \in 1..Len(pod_args) : \A r \in 1..Len(pod_args[c]) :
            LET p == pod_ret.pod[c][r]
            IN  /\ p[1] > 0
                /\ p[1] <= p[2]
                /\ pod_args[c][r] = 0 => p[1] = p[2]

\* C16 witness: the linear curve has returned 1 for the input 0 and a
\* probability below 1 for an input between two of its breakpoints
C16_Witness ==
    /\ pod_pc = "returned"
    /\ pod_ret.curve = "PoD_linear"
    /\ \E c \in 1..Len(pod_args) : \E r1, r2 \in 1..Len(pod_args[c]) :
          /\ pod_args[c][r1] = 0
          /\ pod_ret.pod[c][r1] = <<1, 1>>
          /\ pod_args[c][r2] = 7
          /\ pod_ret.pod[c][r2][1] < pod_ret.pod[c][r2][2]

(***************************************************************************)
(* Properties of the aerial sampler                                        *)
(***************************************************************************)
SourceCells == (1..NumSources) \X (1..NMC)

\* the sample has been drawn
Sampled == as_pc \in {"split", "correction", "noise", "negative", "returned"}

\* the sample has been split into the two matrices
Split == as_pc \in {"correction", "noise", "negative", "returned"}

\* the (emission, wind-normalized) pair of a sampled value
SampledPair(v) == <<SlotEmission(v), SlotWindNorm(v)>>

\* the pairs of the first coverage_count slots of source s
CoveredPairs(s) ==
    {infra_plumes[s][k] : k \in {i \in 1..Len(infra_plumes[s]) : i <= infra_sources[s]}}
    \cup (IF Len(infra_plumes[s]) < infra_sources[s] THEN {<<0, 0>>} ELSE {})

\* C17 (as claimed): for every source and every column, the sampled pair
\* comes from one of the source's first coverage_count slots: an observed
\* plume, or (0, 0) for a visit without a plume; never from a slot at index
\* coverage_count or beyond.
C17_SampledFromCoveredSlots ==
    Sampled => \A cl \in SourceCells :
                  SampledPair(sample[cl[1]][cl[2]]) \in CoveredPairs(cl[1])

\* C18 (as claimed): a source whose coverage_count is 0 contributes no rows
\* to the two sampled matrices, and does not make the sampler fail.
C18_UncoveredSourceContributesNothing ==
    (\E s \in 1..NumSources : infra_sources[s] = 0)
    => /\ as_pc # "ValueError"
       /\ Split => LET covered == {s \in 1..NumSources : infra_sources[s] > 0}
                   IN  /\ Len(emissions) = Cardinality(covered)
                       /\ Len(wind_normalized_em) = Cardinality(covered)

\* C19: from the split to the return, whatever the correction, the noise and
\* the negative handler are, the wind-normalized matrix holds the sampled
\* wind-normalized values.
C19_WindNormalizedUntouched ==
    Split => wind_normalized_em
             = [s \in 1..NumSources |-> [c \in 1..NMC |-> SlotWindNorm(sample[s][c])]]

\* C19 witness: a call has returned after a correction, a noise and the
\* zero-out handler changed an emission whose wind-normalized value is positive
C19_Witness ==
    /\ as_pc = "returned"
    /\ cfg.correction_fn = "linear"
    /\ cfg.simulate_error
    /\ cfg.handle_negative = "zero_out"
    /\ \E cl \in SourceCells :
          /\ wind_normalized_em[cl[1]][cl[2]] > 0
          /\ emissions[cl[1]][cl[2]] # SlotEmission(sample[cl[1]][cl[2]])

\* the returned emission of a cell when the correction (if one is set) is
\* applied first, the noise (if enabled) second and the negative handler last
OrderedPostProcess(s, c) ==
    LET e0 == SlotEmission(sample[s][c])
        e1 == IF cfg.correction_fn # "None" THEN correction_fn(e0) ELSE e0
        e2 == IF cfg.simulate_error THEN noise[s][c] * e1 ELSE e1
    IN  handle_negative(cfg.handle_negative, e2)

\* C20: the returned emissions are the sampled emissions after the correction
\* (when one is set), then the noise (only when enabled), then the negative
\* handler, which runs on every call: with zero_out no returned emission is
\* negative.
C20_PostProcessingOrder ==
    as_pc = "returned"
    => /\ \A cl \in SourceCells :
             emissions[cl[1]][cl[2]] = OrderedPostProcess(cl[1], cl[2])
       /\ ~cfg.simulate_error => noise = <<>>
       /\ cfg.handle_negative = "zero_out"
          => \A cl \in SourceCells : emissions[cl[1]][cl[2]] >= 0

\* C20 witness: a call with all three stages has returned; in one cell the
\* order of correction and noise shows (2 * (2 * 6 - 7) = 10), in another the
\* handler zeroed a negative value
C20_Witness ==
    /\ as_pc = "returned"
    /\ cfg.correction_fn = "linear"
    /\ cfg.simulate_error
    /\ cfg.handle_negative = "zero_out"
    /\ \E c1, c2 \in SourceCells :
          /\ SlotEmission(sample[c1[1]][c1[2]]) = 6
          /\ noise[c1[1]][c1[2]] = 2
          /\ emissions[c1[1]][c1[2]] = 10
          /\ noise[c2[1]][c2[2]] * correction_fn(SlotEmission(sample[c2[1]][c2[2]])) < 0
          /\ emissions[c2[1]][c2[2]] = 0

(***************************************************************************)
(* Properties of stratify_sample                                           *)
(***************************************************************************)
STBins == 1..(Len(st_args.quantiles) - 1)

\* the bin edges have been accepted and the covered productivity counted
STBinned == st_pc \in {"ValueError: 20%", "ValueError: choice", "draw", "returned"}

\* the covered productivity values counted in bin b
STCount(b) ==
    BinCount(BinEdges(st_args.sim_production, st_args.quantiles),
             st_args.covered_productivity, b)

\* the integer nearest to count*n_infra/len, the half going up
Nearest(b) ==
    LET num == STCount(b) * st_args.n_infra
        den == Len(st_args.covered_productivity)
    IN  CHOOSE r \in 0..(st_args.n_infra + 1) :
            (2 * r - 1) * den <= 2 * num /\ 2 * num < (2 * r + 1) * den

\* the sum, times len, of the scaled counts of the bins that round to zero
ZeroRoundedMass ==
    SumSeq([b \in STBins |-> IF Nearest(b) = 0 THEN STCount(b) * st_args.n_infra ELSE 0])

\* C21: stratify raises the 20% error exactly when the bins whose scaled
\* count rounds to zero hold together at least 20% of n_infra.
C21_ZeroRoundedShareRaises ==
    STBinned =>
        (st_pc = "ValueError: 20%"
         <=> 5 * ZeroRoundedMass >= st_args.n_infra * Len(st_args.covered_productivity))

\* C21 witness: the error was raised with exactly 20% in the bins that round
\* to zero
C21_Witness ==
    /\ st_pc = "ValueError: 20%"
    /\ 5 * ZeroRoundedMass = st_args.n_infra * Len(st_args.covered_productivity)

\* C22: every bin but the largest holds its scaled count rounded to the
\* nearest integer, halves up; the counts sum to n_infra; once every bin is
\* drawn there are n_infra rows, and the returned matrix has n_infra rows in
\* every column, each a simulated emission that was drawn.
C22_CountsSumToNRows ==
    /\ st_pc = "draw" =>
          /\ \A b \in STBins :
                b # LargestGroup([k \in STBins |-> Nearest(k)])
                => prod_count_by_bin[b] = Nearest(b)
          /\ SumSeq(prod_count_by_bin) = st_args.n_infra
          /\ Len(stratified_sample) = Len(prod_count_by_bin)
             => Len(Flatten(stratified_sample)) = st_args.n_infra
    /\ st_pc = "returned" =>
          \A c \in 1..NMC :
             /\ Len(stratified_sample[c]) = st_args.n_infra
             /\ \A r \in 1..st_args.n_infra :
                   \E i \in 1..Len(st_args.sim_emissions) :
                      stratified_sample[c][r] = st_args.sim_emissions[i]

\* C22 witness: a call has returned after a scaled count of exactly one half
\* was rounded up and the largest bin was lowered
C22_Witness ==
    /\ st_pc = "returned"
    /\ \E b \in STBins :
          /\ 2 * STCount(b) * st_args.n_infra = Len(st_args.covered_productivity)
          /\ Nearest(b) = 1
    /\ SumSeq([b \in STBins |-> Nearest(b)]) > st_args.n_infra

\* as many bins as covered productivity values and as simulated production
\* values, and every bin holds exactly one of each
ExactBinning ==
    /\ Len(st_args.quantiles) - 1 = Len(st_args.covered_productivity)
    /\ Len(st_args.quantiles) - 1 = Len(st_args.sim_production)
    /\ \A b \in STBins :
          LET edges == BinEdges(st_args.sim_production, st_args.quantiles)
          IN  /\ Cardinality({i \in 1..Len(st_args.covered_productivity) :
                     InCutBin(edges, b, st_args.covered_productivity[i])}) = 1
              /\ Cardinality({i \in 1..Len(st_args.sim_production) :
                     InSimBin(edges, b, st_args.sim_production[i])}) = 1

ReproducesSimulated ==
    \A c \in 1..NMC : stratified_sample[c] = SortedColumn(st_args.sim_emissions)

\* C23 (as claimed): under exact binning every column of the output equals
\* the simulated emissions sorted ascending.
C23_ExactBinningReproduces ==
    (st_pc = "returned" /\ ExactBinning) => ReproducesSimulated

\* C23 (amended): under exact binning and with n_infra equal to the number of
\* simulated values, every column of the output equals the simulated
\* emissions sorted ascending.
C23_ExactBinningSameSizeReproduces ==
    (st_pc = "returned" /\ ExactBinning
       /\ st_args.n_infra = Len(st_args.sim_emissions))
    => ReproducesSimulated

\* C23 witness: two wells, two bins, two rows asked for, and the call returned
C23_Witness ==
    /\ st_pc = "returned"
    /\ ExactBinning
    /\ st_args.n_infra = Len(st_args.sim_emissions)
    /\ Len(st_args.sim_emissions) > 1

\* C29 (as claimed): a covered productivity value and a simulated production
\* value that are equal are assigned to the same bin, also when they equal a
\* bin edge or 0.
C29_OneMembershipRule ==
    st_pc = "draw" =>
        \A i \in 1..Len(st_args.covered_productivity) :
        \A j \in 1..Len(st_args.sim_production) :
            st_args.covered_productivity[i] = st_args.sim_production[j]
            => \E b \in STBins :
                  /\ InCutBin(sim_quantiles, b, st_args.covered_productivity[i])
                  /\ InSimBin(sim_quantiles, b, st_args.sim_production[j])

\* C30 (as claimed): once the length and 20% checks are passed, no count is
\* negative, every bin with a positive count has a simulated value to draw,
\* and so no draw raises.
C30_DrawsWellDefined ==
    /\ st_pc = "draw" =>
          \A b \in STBins :
             /\ prod_count_by_bin[b] >= 0
             /\ prod_count_by_bin[b] > 0 => BinEmissions(b) # {}
    /\ st_pc # "ValueError: choice"

(***************************************************************************)
(* Properties of handle_cutoffs                                            *)
(***************************************************************************)
\* handle_cutoffs was called with "drop" on a plume table that has the
\* cut-off column, and has returned or raised
DropEnded ==
    /\ cut_pc \in {"returned", "KeyError", "ValueError", "AttributeError"}
    /\ cutoff_col # "None"
    /\ cut_args.has_col
    /\ cut_args.cutoff_handling = "drop"

\* the cut-off plumes of a source in the table as it was read
RemovedPlumes(i) ==
    Cardinality({k \in 1..Len(cut_args.raw_plumes) :
                    /\ cut_args.raw_plumes[k].source_id = i
                    /\ cut_args.raw_plumes[k].cutoff})

\* C25: with cutoff handling "drop", every plume flagged as cut off is removed
\* from the plume table, each affected source's coverage count is reduced by
\* the number of its removed plumes, and the sources left with a coverage
\* count of 0 are removed.
C25_DropRemovesAndDecrements ==
    DropEnded =>
        /\ cut_pc = "returned"
        /\ raw_plumes = Keep(cut_args.raw_plumes,
                             {k \in 1..Len(cut_args.raw_plumes) :
                                 ~cut_args.raw_plumes[k].cutoff})
        /\ raw_source =
              Keep([i \in 1..Len(cut_args.raw_source) |->
                      [source_id |-> i,
                       coverage_count |-> cut_args.raw_source[i].coverage_count
                                            - RemovedPlumes(i)]],
                   {i \in 1..Len(cut_args.raw_source) :
                       cut_args.raw_source[i].coverage_count - RemovedPlumes(i) > 0})

(***************************************************************************)
(* The rows the combiner replaces                                          *)
(***************************************************************************)
\* the columns the loop of combine_prod_samples has passed
ColumnsPassed ==
    IF pc = "combine_loop" THEN 1..(n - 1)
    ELSE IF pc \in {"combine_sort", "report", "done"} THEN 1..NMC
    ELSE {}

\* C26: for every column, the number of rows combine replaces equals the
\* number of rows of the zero-padded aerial column whose value is below the
\* transition point, including the case where every row of the column is
\* below it.
C26_ReplacesEveryRowBelow ==
    \A c \in ColumnsPassed :
        ArgminBelow(PaddedAerial(c), prod_tp[c])
            = Cardinality(RowsBelowTransition(c))

(***************************************************************************)
(* The ends of the grid in find_transition_point                           *)
(***************************************************************************)
\* every column of the direct call got through the interpolation loop
TPInterpolated ==
    \A c \in 1..TPCols :
        ColumnError(tp_args.aerial_x[c], tp_args.aerial_y[c],
                    tp_args.sim_x[c], tp_args.sim_y[c]) = "none"

\* aerial_decay - sim_decay of a column is positive nowhere on the grid
NeverPositive(c) == \A w \in 0..(GridLen - 1) : ~FGt(TPDiff(c)[w], 0)

C28_FirstGridPointIsZero ==
    (TPReturned /\ TPInterpolated) =>
        \A c \in 1..TPCols :
            /\ SmoothDist(0, InterpDist(tp_args.aerial_x[c], tp_args.aerial_y[c]),
                          tp_args.smoothing_window) = 0
            /\ SmoothDist(0, InterpDist(tp_args.sim_x[c], tp_args.sim_y[c]),
                          tp_args.smoothing_window) = 0
            /\ TPDiff(c)[0] = 0

(***************************************************************************)
(* Reproducibility of a seeded run                                         *)
(***************************************************************************)
\* two runs have ended, configured with the same seed (not None) and the
\* same inputs
SameSeedTwice ==
    /\ Len(runs) = SeedRuns
    /\ runs[1].random_seed # <<>>
    /\ runs[1].random_seed = runs[2].random_seed
    /\ runs[1].simulate_error = runs[2].simulate_error

\* C24: two runs of the pipeline configured with the same random seed and
\* the same inputs produce identical simulated, aerial and combined
\* matrices, and end alike; the draws of each run were made in the order
\* simulated sample, aerial samples, gap backfill.
C24_SameSeedSameMatrices ==
    SameSeedTwice =>
        /\ runs[1].simulated_sample = runs[2].simulated_sample
        /\ runs[1].aerial_samples = runs[2].aerial_samples
        /\ runs[1].prod_combined_samples = runs[2].prod_combined_samples
        /\ runs[1].err = runs[2].err
        /\ \A k \in 1..SeedRuns :
              runs[k].drew \in {<<"simulated", "aerial">>,
                                <<"simulated", "aerial", "backfill">>}

\* C24 witness: two runs with the same seed ended without an error, each
\* with noise drawn and a row backfilled, and with the same matrices
C24_Witness ==
    /\ SameSeedTwice
    /\ runs[1].simulate_error
    /\ runs[1].err = "none"
    /\ runs[1].drew = <<"simulated", "aerial", "backfill">>
    /\ runs[2].prod_combined_samples = runs[1].prod_combined_samples

====
